---- MODULE Spec2Model ----
(***************************************************************************)
(* A model of the knowledge-base RAG pipeline: the document loader         *)
(* (src/src/loader.py), the vector store functions (src/src/vectorstore.py)*)
(* and the orchestrator KnowledgeBaseRAG (src/src/rag.py).                 *)
(*                                                                         *)
(* Text is modelled as a sequence of one-character strings, so that the    *)
(* string operations of the code (startswith, split, strip, lower, join,   *)
(* f-string formatting) are computed and not assumed.                      *)
(***************************************************************************)
EXTENDS Integers, Sequences, FiniteSets, TLC

\* Python's None, as a record: every optional value of the model is a record
None == [none |-> TRUE]

\* the "raised" field of a call that returned normally
NoException == "no exception"

(***************************************************************************)
(* Python string primitives over sequences of characters.                  *)
(***************************************************************************)

\* str.isspace for the characters of the model's alphabet
IsSpace(c) == c \in {" ", "\n", "\t", "\r"}

\* str.lower on one character
LowerChar(c) ==
    CASE c = "A" -> "a"
      [] c = "T" -> "t"
      [] c = "S" -> "s"
      [] c = "F" -> "f"
      [] c = "Q" -> "q"
      [] c = "U" -> "u"
      [] c = "I" -> "i"
      [] c = "E" -> "e"
      [] c = "X" -> "x"
      [] OTHER -> c

\* str.lower
Lower(s) == [i \in 1..Len(s) |-> LowerChar(s[i])]

\* s[i:] of Python with a 1-based first index
From(s, i) == SubSeq(s, i, Len(s))

\* str.startswith
StartsWith(s, p) == Len(s) >= Len(p) /\ SubSeq(s, 1, Len(p)) = p

RECURSIVE LStrip(_)
\* str.lstrip()
LStrip(s) ==
    IF s # <<>> /\ IsSpace(Head(s)) THEN LStrip(Tail(s)) ELSE s

RECURSIVE RStrip(_)
\* str.rstrip()
RStrip(s) ==
    IF s # <<>> /\ IsSpace(s[Len(s)]) THEN RStrip(SubSeq(s, 1, Len(s) - 1)) ELSE s

\* str.strip()
Strip(s) == RStrip(LStrip(s))

RECURSIVE FindFrom(_, _, _)
\* str.find(sep, i), 1-based; 0 when sep does not occur at or after i
FindFrom(s, sep, i) ==
    IF i + Len(sep) - 1 > Len(s) THEN 0
    ELSE IF SubSeq(s, i, i + Len(sep) - 1) = sep THEN i
    ELSE FindFrom(s, sep, i + 1)

\* `sep in s`
Contains(s, sep) == FindFrom(s, sep, 1) # 0

RECURSIVE Split(_, _, _)
\* str.split(sep, maxsplit) for a non-empty sep; maxsplit = -1 is "no limit"
Split(s, sep, maxsplit) ==
    LET i == FindFrom(s, sep, 1)
    IN  IF maxsplit = 0 \/ i = 0 THEN <<s>>
        ELSE <<SubSeq(s, 1, i - 1)>>
             \o Split(From(s, i + Len(sep)), sep, maxsplit - 1)

RECURSIVE Join(_, _)
\* sep.join(parts)
Join(sep, parts) ==
    IF parts = <<>> THEN <<>>
    ELSE IF Len(parts) = 1 THEN parts[1]
    ELSE parts[1] \o sep \o Join(sep, Tail(parts))

\* dict.get(key, default)
Get(m, key, default) == IF key \in DOMAIN m THEN m[key] ELSE default

\* dict item assignment m[key] = value
Put(m, key, value) ==
    [x \in DOMAIN m \cup {key} |-> IF x = key THEN value ELSE m[x]]

(***************************************************************************)
(* loader.py: parse_metadata                                               *)
(***************************************************************************)

DELIM == <<"-", "-", "-">>

RECURSIVE ParseHeaderLines(_, _)
\* the loop over header.split('\n'): later lines overwrite earlier keys
ParseHeaderLines(lines, metadata) ==
    IF lines = <<>> THEN metadata
    ELSE LET line == Head(lines)
         IN  IF Contains(line, <<":">>)
             THEN LET kv == Split(line, <<":">>, 1)
                  IN  ParseHeaderLines(Tail(lines),
                          Put(metadata, Lower(Strip(kv[1])), Strip(kv[2])))
             ELSE ParseHeaderLines(Tail(lines), metadata)

\* a parse_metadata that trims the text it returns when it finds no header
parse_metadata_trims_plain_text(content) ==
    LET parts == Split(content, DELIM, 2)
    IN  IF StartsWith(content, DELIM) /\ Len(parts) >= 3
        THEN <<ParseHeaderLines(Split(Strip(parts[2]), <<"\n">>, -1), <<>>),
               Strip(parts[3])>>
        ELSE << <<>>, Strip(content)>>

\* parse_metadata(content) = <<metadata, content without header>>
parse_metadata(content) ==
    LET parts == Split(content, DELIM, 2)
    IN  IF StartsWith(content, DELIM) /\ Len(parts) >= 3
        THEN <<ParseHeaderLines(Split(Strip(parts[2]), <<"\n">>, -1), <<>>),
               Strip(parts[3])>>
        ELSE << <<>>, content>>

(***************************************************************************)
(* The file system the loader reads.  A directory is missing (None) or a   *)
(* listing in the order Path.glob enumerates it; a file has a name and its *)
(* text, and reading it can fail (TextLoader raises).                      *)
(***************************************************************************)

K_source == <<"s", "o", "u", "r", "c", "e">>
K_filepath == <<"f", "i", "l", "e", "p", "a", "t", "h">>
K_author == <<"a", "u", "t", "h", "o", "r">>
K_topic == <<"t", "o", "p", "i", "c">>
Unknown == <<"U", "n", "k", "n", "o", "w", "n">>
TXT == <<".", "t", "x", "t">>

File(name, readable, text) == [name |-> name, readable |-> readable, text |-> text]

\* "---\nAuthor: A\nTopic: T\n---\nab cd\n\nef"
TextA ==
    DELIM \o <<"\n", "A", "u", "t", "h", "o", "r", ":", " ", "A", "\n">>
          \o <<"T", "o", "p", "i", "c", ":", " ", "T", "\n">>
          \o DELIM \o <<"\n", "a", "b", " ", "c", "d", "\n", "\n", "e", "f">>

\* "---\nSource: z\nnote\n---\n ba " : a header that declares its own source
TextB ==
    DELIM \o <<"\n", "S", "o", "u", "r", "c", "e", ":", " ", "z", "\n", "n", "o", "t", "e", "\n">>
          \o DELIM \o <<"\n", " ", "b", "a", " ">>

\* "cc" : no header
TextD == <<"c", "c">>

\* "---\nSource: z\nfilepath: y\n---\nab" : a header that declares its own
\* source and filepath
TextF ==
    DELIM \o <<"\n", "S", "o", "u", "r", "c", "e", ":", " ", "z", "\n">>
          \o <<"f", "i", "l", "e", "p", "a", "t", "h", ":", " ", "y", "\n">>
          \o DELIM \o <<"\n", "a", "b">>

Directories ==
    {"knowledge_base", "notes", "drafts", "broken", "empty_dir", "no_such_dir"}

\* the directories the orchestrator is asked to load
LoadDirectories == {"knowledge_base", "no_such_dir"}

\* each directory: whether it exists, and its listing
FileSystem(directory) ==
    CASE directory = "knowledge_base" ->
            [exists |-> TRUE,
             files |-> << File(<<"a">> \o TXT, TRUE, TextA),
                          File(<<"n", ".", "m", "d">>, TRUE, TextD),
                          File(<<"c">> \o TXT, FALSE, <<>>),
                          File(<<"b">> \o TXT, TRUE, TextB),
                          File(<<"d">> \o TXT, TRUE, TextD) >>]
      [] directory = "notes" ->
            [exists |-> TRUE,
             files |-> << File(<<"e">> \o TXT, TRUE, <<" ", "\n">>),
                          File(<<"f">> \o TXT, TRUE, TextF),
                          File(<<"g">> \o TXT, FALSE, <<>>) >>]
      [] directory = "drafts" ->
            [exists |-> TRUE,
             files |-> << File(<<"x">> \o TXT, FALSE, <<>>),
                          File(<<"d">> \o TXT, TRUE, TextD),
                          File(<<"y">> \o TXT, FALSE, <<>>) >>]
      [] directory = "broken" ->
            [exists |-> TRUE,
             files |-> << File(<<"x">> \o TXT, FALSE, <<>>) >>]
      [] directory = "empty_dir" -> [exists |-> TRUE, files |-> <<>>]
      [] OTHER -> [exists |-> FALSE, files |-> <<>>]

\* str(directory) as text, one symbol for the directory's name
DirText(directory) == <<directory>>

\* Path.glob("*.txt"): the files of the listing whose name ends in .txt
Glob(listing) ==
    SelectSeq(listing, LAMBDA f :
        Len(f.name) >= Len(TXT) /\ From(f.name, Len(f.name) - Len(TXT) + 1) = TXT)

Document(page_content, metadata) ==
    [page_content |-> page_content, metadata |-> metadata]

RECURSIVE LoadFiles_header_wins(_, _, _)
\* a loop that writes source and filepath first and the header's fields over
\* them
LoadFiles_header_wins(directory, txt_files, docs) ==
    IF txt_files = <<>> THEN docs
    ELSE LET file == Head(txt_files)
             parsed == parse_metadata(file.text)
             md1 == Put(<<>>, K_source, file.name)
             md2 == Put(md1, K_filepath, DirText(directory) \o <<"/">> \o file.name)
             md3 == [key \in DOMAIN md2 \cup DOMAIN parsed[1] |->
                        IF key \in DOMAIN parsed[1] THEN parsed[1][key] ELSE md2[key]]
         IN  IF file.readable
             THEN LoadFiles_header_wins(directory, Tail(txt_files),
                                        Append(docs, Document(parsed[2], md3)))
             ELSE LoadFiles_header_wins(directory, Tail(txt_files), docs)

RECURSIVE LoadFiles(_, _, _)
\* the loop "for file in txt_files" with its try/except
LoadFiles(directory, txt_files, docs) ==
    IF txt_files = <<>> THEN docs
    ELSE LET file == Head(txt_files)
             parsed == parse_metadata(file.text)
             md1 == Put(parsed[1], K_source, file.name)
             md2 == Put(md1, K_filepath, DirText(directory) \o <<"/">> \o file.name)
         IN  IF file.readable
             THEN LoadFiles(directory, Tail(txt_files),
                            Append(docs, Document(parsed[2], md2)))
             ELSE LoadFiles(directory, Tail(txt_files), docs)

\* a load_knowledge_base that gives up at the first file it cannot read
load_knowledge_base_stops_at_failure(directory) ==
    IF ~FileSystem(directory).exists THEN <<>>
    ELSE LET files == Glob(FileSystem(directory).files)
             bad == {i \in 1..Len(files) : ~files[i].readable}
             stop == IF bad = {} THEN Len(files)
                     ELSE (CHOOSE i \in bad : \A j \in bad : i <= j) - 1
         IN  LoadFiles(directory, SubSeq(files, 1, stop), <<>>)

\* load_knowledge_base(directory)
load_knowledge_base(directory) ==
    IF ~FileSystem(directory).exists THEN <<>>
    ELSE LoadFiles(directory, Glob(FileSystem(directory).files), <<>>)

(***************************************************************************)
(* loader.py: create_chunks, with the recursive character splitter it      *)
(* configures (keep_separator and strip_whitespace at their defaults).     *)
(***************************************************************************)

Separators == << <<"\n", "\n">>, <<"\n">>, <<".", " ">>, <<" ">>, <<>> >>

\* lengths of the splitter's separator join: separators are kept in the splits
MergeSeparator == <<>>

RECURSIVE PickSeparator(_, _)
\* the first separator that is "" or occurs in the text, with those after it
PickSeparator(text, separators) ==
    IF separators = <<>> THEN [separator |-> <<>>, rest |-> <<>>]
    ELSE IF Head(separators) = <<>> THEN [separator |-> <<>>, rest |-> <<>>]
    ELSE IF Contains(text, Head(separators))
         THEN [separator |-> Head(separators), rest |-> Tail(separators)]
    ELSE PickSeparator(text, Tail(separators))

\* the splits of the text at the separator, each separator kept at the start
\* of the piece that follows it; empty pieces dropped
SplitKeep(text, separator) ==
    LET pieces == IF separator = <<>>
                  THEN [i \in 1..Len(text) |-> <<text[i]>>]
                  ELSE LET ps == Split(text, separator, -1)
                       IN  [i \in 1..Len(ps) |->
                               IF i = 1 THEN ps[1] ELSE separator \o ps[i]]
    IN  SelectSeq(pieces, LAMBDA p : p # <<>>)

\* _join_docs: the joined, stripped text, as a list that is empty when the
\* text is empty
JoinDocs(docs, separator) ==
    LET text == Strip(Join(separator, docs))
    IN  IF text = <<>> THEN <<>> ELSE <<text>>

SepLen(current_doc, n) == IF Len(current_doc) > n THEN Len(MergeSeparator) ELSE 0

RECURSIVE PopOverlap(_, _, _, _, _)
\* the while loop of _merge_splits that drops splits from the front
PopOverlap(current_doc, total, len, chunk_size, chunk_overlap) ==
    IF total > chunk_overlap
       \/ (total + len + SepLen(current_doc, 0) > chunk_size /\ total > 0)
    THEN PopOverlap(Tail(current_doc),
                    total - (Len(Head(current_doc)) + SepLen(current_doc, 1)),
                    len, chunk_size, chunk_overlap)
    ELSE [current_doc |-> current_doc, total |-> total]

RECURSIVE MergeLoop(_, _, _, _, _, _)
MergeLoop(splits, docs, current_doc, total, chunk_size, chunk_overlap) ==
    IF splits = <<>> THEN docs \o JoinDocs(current_doc, MergeSeparator)
    ELSE LET d == Head(splits)
             len == Len(d)
             over == total + len + SepLen(current_doc, 0) > chunk_size
             flush == over /\ Len(current_doc) > 0
             docs1 == IF flush THEN docs \o JoinDocs(current_doc, MergeSeparator)
                      ELSE docs
             kept == IF flush
                     THEN PopOverlap(current_doc, total, len, chunk_size, chunk_overlap)
                     ELSE [current_doc |-> current_doc, total |-> total]
             cur1 == Append(kept.current_doc, d)
         IN  MergeLoop(Tail(splits), docs1, cur1,
                       kept.total + len + SepLen(cur1, 1),
                       chunk_size, chunk_overlap)

\* _merge_splits(splits, separator)
MergeSplits(splits, chunk_size, chunk_overlap) ==
    MergeLoop(splits, <<>>, <<>>, 0, chunk_size, chunk_overlap)

RECURSIVE SplitText(_, _, _, _)
RECURSIVE SplitLoop(_, _, _, _, _, _)
\* the loop over the splits of _split_text
SplitLoop(splits, good, final, new_separators, chunk_size, chunk_overlap) ==
    IF splits = <<>>
    THEN IF good # <<>>
         THEN final \o MergeSplits(good, chunk_size, chunk_overlap)
         ELSE final
    ELSE LET s == Head(splits)
         IN  IF Len(s) < chunk_size
             THEN SplitLoop(Tail(splits), Append(good, s), final,
                            new_separators, chunk_size, chunk_overlap)
             ELSE LET final1 == IF good # <<>>
                                THEN final \o MergeSplits(good, chunk_size, chunk_overlap)
                                ELSE final
                      final2 == IF new_separators = <<>>
                                THEN Append(final1, s)
                                ELSE final1 \o SplitText(s, new_separators,
                                                         chunk_size, chunk_overlap)
                  IN  SplitLoop(Tail(splits), <<>>, final2,
                                new_separators, chunk_size, chunk_overlap)

\* RecursiveCharacterTextSplitter._split_text(text, separators)
SplitText(text, separators, chunk_size, chunk_overlap) ==
    LET pick == PickSeparator(text, separators)
    IN  SplitLoop(SplitKeep(text, pick.separator), <<>>, <<>>, pick.rest,
                  chunk_size, chunk_overlap)

RECURSIVE SplitDocuments(_, _, _)
\* split_documents: every chunk of a document carries a copy of its metadata
SplitDocuments(docs, chunk_size, chunk_overlap) ==
    IF docs = <<>> THEN <<>>
    ELSE LET texts == SplitText(Head(docs).page_content, Separators,
                                chunk_size, chunk_overlap)
         IN  [i \in 1..Len(texts) |-> Document(texts[i], Head(docs).metadata)]
             \o SplitDocuments(Tail(docs), chunk_size, chunk_overlap)

\* a create_chunks whose chunks keep the 'source' of their document and none
\* of its other fields
create_chunks_source_only(docs, chunk_size, chunk_overlap) ==
    LET cs == SplitDocuments(docs, chunk_size, chunk_overlap)
    IN  [i \in 1..Len(cs) |->
            Document(cs[i].page_content,
                     [key \in DOMAIN cs[i].metadata \cap {K_source} |->
                         cs[i].metadata[key]])]

\* create_chunks(documents, chunk_size, chunk_overlap)
create_chunks(docs, chunk_size, chunk_overlap) ==
    IF docs = <<>> THEN <<>>
    ELSE SplitDocuments(docs, chunk_size, chunk_overlap)

(***************************************************************************)
(* The embedding gateway (embeddings.py) and the FAISS store it feeds.     *)
(* An embedding is modelled in one dimension: the vector of a text is an   *)
(* integer, a deterministic function of the text, and the distance between *)
(* two vectors is the squared difference (the squared L2 distance of the   *)
(* flat index that FAISS.from_documents builds).                           *)
(***************************************************************************)

EmbeddingsModel == [model_id |-> "amazon.titan-embed-text-v2:0"]
LlmModel == [model_id |-> "us.amazon.nova-lite-v1:0"]

CharCode(c) ==
    CASE c = "a" -> 1
      [] c = "b" -> 2
      [] c = "c" -> 3
      [] c = "d" -> 4
      [] c = "e" -> 5
      [] c = "f" -> 6
      [] OTHER -> 0

RECURSIVE Embed(_)
\* embed_query / embed_documents on one text
Embed(text) ==
    IF text = <<>> THEN 0 ELSE CharCode(Head(text)) + Embed(Tail(text))

Distance(u, v) == (u - v) * (u - v)

\* create_embeddings(): the gateway object, or None when the client cannot
\* be created (boto3.client raises)
create_embeddings(aws_ok) == IF aws_ok THEN EmbeddingsModel ELSE None

\* FAISS.from_documents(chunks, embeddings): one vector per chunk, in order;
\* docstore ids are the positions
FAISS_from_documents(chunks, embeddings) ==
    [embedding_function |-> embeddings,
     index |-> [i \in 1..Len(chunks) |-> Embed(chunks[i].page_content)],
     docstore |-> [i \in 1..Len(chunks) |-> chunks[i]],
     index_to_docstore_id |-> [i \in 1..Len(chunks) |-> i]]

\* the outcome of a function call: what it raised (NoException when it returned),
\* its value, and what it did to the gateways on the way
Outcome(raised, value, gateways_created, embed_calls, index_built) ==
    [raised |-> raised, value |-> value, gateways_created |-> gateways_created,
     embed_calls |-> embed_calls, index_built |-> index_built]

\* a create_vector_store that makes its gateway before it looks at the chunks
create_vector_store_late_check(chunks, embeddings, aws_ok, fail_at) ==
    LET created == IF embeddings = None THEN 1 ELSE 0
        emb == IF embeddings = None THEN create_embeddings(aws_ok) ELSE embeddings
    IN  IF emb = None
        THEN Outcome("ClientError", None, created, 0, FALSE)
        ELSE IF chunks = <<>>
        THEN Outcome("ValueError", None, created, 0, FALSE)
        ELSE IF fail_at \in 1..Len(chunks)
        THEN Outcome("GatewayError", None, created, fail_at, FALSE)
        ELSE Outcome(NoException, FAISS_from_documents(chunks, emb),
                     created, Len(chunks), TRUE)

\* create_vector_store(chunks, embeddings).  aws_ok: whether a gateway
\* client can be created; fail_at: the embedding call that fails (0: none)
create_vector_store(chunks, embeddings, aws_ok, fail_at) ==
    IF chunks = <<>>
    THEN Outcome("ValueError", None, 0, 0, FALSE)
    ELSE LET created == IF embeddings = None THEN 1 ELSE 0
             emb == IF embeddings = None THEN create_embeddings(aws_ok)
                    ELSE embeddings
         IN  IF emb = None
             THEN Outcome("ClientError", None, created, 0, FALSE)
             ELSE IF fail_at \in 1..Len(chunks)
             THEN Outcome("GatewayError", None, created, fail_at, FALSE)
             ELSE Outcome(NoException, FAISS_from_documents(chunks, emb),
                          created, Len(chunks), TRUE)

\* FAISS.save_local: the index file and the pickled docstore
save_local(vectorstore) ==
    [index_faiss |-> vectorstore.index,
     index_pkl |-> <<vectorstore.docstore, vectorstore.index_to_docstore_id>>]

\* FAISS.load_local(path, embeddings)
load_local(blob, embeddings) ==
    [embedding_function |-> embeddings,
     index |-> blob.index_faiss,
     docstore |-> blob.index_pkl[1],
     index_to_docstore_id |-> blob.index_pkl[2]]

\* save_vector_store(vectorstore, path): the new content of the disk
save_vector_store(vectorstore, path, disk_) ==
    IF vectorstore = None
    THEN [raised |-> "ValueError", disk |-> disk_]
    ELSE [raised |-> NoException,
          disk |-> [disk_ EXCEPT ![path] = save_local(vectorstore)]]

\* a load_vector_store that makes its gateway before it looks at the path
load_vector_store_gateway_first(path, embeddings, disk_, aws_ok) ==
    LET created == IF embeddings = None THEN 1 ELSE 0
        emb == IF embeddings = None THEN create_embeddings(aws_ok) ELSE embeddings
    IN  IF emb = None
        THEN Outcome("ClientError", None, created, 0, FALSE)
        ELSE IF disk_[path] = None
        THEN Outcome("FileNotFoundError", None, created, 0, FALSE)
        ELSE Outcome(NoException, load_local(disk_[path], emb), created, 0, TRUE)

\* a load_vector_store that embeds the stored documents again
load_vector_store_rebuild(path, embeddings, disk_, aws_ok) ==
    IF disk_[path] = None
    THEN Outcome("FileNotFoundError", None, 0, 0, FALSE)
    ELSE LET created == IF embeddings = None THEN 1 ELSE 0
             emb == IF embeddings = None THEN create_embeddings(aws_ok)
                    ELSE embeddings
             docs == disk_[path].index_pkl[1]
         IN  IF emb = None
             THEN Outcome("ClientError", None, created, 0, FALSE)
             ELSE Outcome(NoException, FAISS_from_documents(docs, emb),
                          created, Len(docs), TRUE)

\* load_vector_store(path, embeddings)
load_vector_store(path, embeddings, disk_, aws_ok) ==
    IF disk_[path] = None
    THEN Outcome("FileNotFoundError", None, 0, 0, FALSE)
    ELSE LET created == IF embeddings = None THEN 1 ELSE 0
             emb == IF embeddings = None THEN create_embeddings(aws_ok)
                    ELSE embeddings
         IN  IF emb = None
             THEN Outcome("ClientError", None, created, 0, FALSE)
             ELSE Outcome(NoException, load_local(disk_[path], emb), created, 0, TRUE)

RECURSIVE InsertHit(_, _)
\* a hit [d, i] put into the hits kept in ascending order: it goes after
\* every hit that is not farther, so an earlier vector wins a tie
InsertHit(hits, h) ==
    IF hits = <<>> THEN <<h>>
    ELSE IF h.d < Head(hits).d THEN <<h>> \o hits
    ELSE <<Head(hits)>> \o InsertHit(Tail(hits), h)

RECURSIVE Nearest(_, _, _, _)
\* index.search(vector, k): scan the vectors in insertion order, keeping the
\* k nearest
Nearest(index, v, k, i) ==
    IF i = 0 THEN <<>>
    ELSE LET hits == InsertHit(Nearest(index, v, k, i - 1),
                               [d |-> Distance(index[i], v), i |-> i])
         IN  SubSeq(hits, 1, IF Len(hits) < k THEN Len(hits) ELSE k)

\* FAISS.similarity_search(query, k): the documents of the k nearest vectors
similarity_search(vectorstore, query, k) ==
    LET hits == Nearest(vectorstore.index, Embed(query), k, Len(vectorstore.index))
    IN  [j \in 1..Len(hits) |->
            vectorstore.docstore[vectorstore.index_to_docstore_id[hits[j].i]]]

\* a search that returns every entry of the index, whatever k
search_ignores_k(vectorstore, query, k) ==
    IF vectorstore = None
    THEN [raised |-> "ValueError", value |-> <<>>]
    ELSE [raised |-> NoException,
          value |-> similarity_search(vectorstore, query, Len(vectorstore.index))]

\* search(vectorstore, query, k)
search(vectorstore, query, k) ==
    IF vectorstore = None
    THEN [raised |-> "ValueError", value |-> <<>>]
    ELSE [raised |-> NoException, value |-> similarity_search(vectorstore, query, k)]

\* FAISS.similarity_search_with_score(query, k): the documents of the k
\* nearest vectors, each with its distance
similarity_search_with_score(vectorstore, query, k) ==
    LET hits == Nearest(vectorstore.index, Embed(query), k, Len(vectorstore.index))
    IN  [j \in 1..Len(hits) |->
            <<vectorstore.docstore[vectorstore.index_to_docstore_id[hits[j].i]],
              hits[j].d>>]

\* a search_with_scores that takes a missing store for an empty one
search_with_scores_no_check(vectorstore, query, k) ==
    IF vectorstore = None
    THEN [raised |-> NoException, value |-> <<>>]
    ELSE [raised |-> NoException,
          value |-> similarity_search_with_score(vectorstore, query, k)]

\* search_with_scores(vectorstore, query, k)
search_with_scores(vectorstore, query, k) ==
    IF vectorstore = None
    THEN [raised |-> "ValueError", value |-> <<>>]
    ELSE [raised |-> NoException,
          value |-> similarity_search_with_score(vectorstore, query, k)]

(***************************************************************************)
(* rag.py: the orchestrator KnowledgeBaseRAG.                              *)
(***************************************************************************)

\* bound of the model: the largest k of a search
MaxK == 3

\* program constants
DefaultK == 3
DefaultChunkSize == 500
DefaultChunkOverlap == 50

Threads == {1, 2}
SeqThreads == {1}
Paths == {"vector_index", "test_vector_index"}
SavePaths == {"vector_index"}
Questions == {<<"c">>, <<"d", "d">>}
Ks == (1..MaxK) \cup {DefaultK}
\* the defaults, and a chunk size and overlap small enough to split the
\* model's documents
ChunkParams == {<<DefaultChunkSize, DefaultChunkOverlap>>, <<4, 1>>}
\* what the generation gateway can answer to a prompt
Answers == {<<"x">>, <<"y", "x">>}
\* what a call of the generation gateway can do: fail, or answer
GenerationFailure == [failed |-> TRUE]
Generations == {GenerationFailure} \cup {[content |-> a] : a \in Answers}

FullMetadata ==
    Put(Put(Put(<<>>, K_source, <<"x">> \o TXT), K_author, <<"A">>), K_topic, <<"T">>)

SourceOnly == Put(<<>>, K_source, <<"x">> \o TXT)

\* chunks that did not come from the loader: with and without metadata, two
\* of them with the same text
Pool ==
    << Document(<<"a">>, FullMetadata), Document(<<"d">>, <<>>),
       Document(<<"c">>, FullMetadata), Document(<<"f">>, SourceOnly),
       Document(<<"c">>, SourceOnly) >>

\* the chunk lists given to create_vector_store: the empty list, and every
\* beginning and every end of the pool
ChunkLists ==
    {SubSeq(Pool, 1, j) : j \in 0..Len(Pool)}
        \cup {SubSeq(Pool, i, Len(Pool)) : i \in 1..Len(Pool)}

\* the persisted indexes found on disk at the start, left by an earlier run
\* or by another tool: one without entries, one with the pool
ForeignIndexes == {<<>>, Pool}

Persisted(cs) == save_local(FAISS_from_documents(cs, EmbeddingsModel))

VARIABLES
    documents,      \* self.documents
    chunks,         \* self.chunks
    vectorstore,    \* self.vectorstore
    embeddings,     \* self.embeddings
    llm,            \* self.llm
    disk,           \* the persisted index at each path, None where none exists
    origin,         \* at each path, the store object last saved there by this run
    call,           \* per thread: the ask() call in flight, or the last one
    ret             \* the outcome of the last call of any other operation

vars == <<documents, chunks, vectorstore, embeddings, llm, disk, origin, call, ret>>

IdleCall ==
    [pc |-> "idle", question |-> <<>>, k |-> 0, show_context |-> FALSE,
     search_returned |-> FALSE, relevant_docs |-> <<>>, prompt |-> <<>>,
     response |-> None, events |-> <<>>, raised |-> NoException, result |-> None]

NoRet ==
    [op |-> "none", arg |-> <<>>, raised |-> NoException, value |-> 0,
     store |-> None, docs |-> <<>>, gateways_created |-> 0, embed_calls |-> 0,
     index_built |-> FALSE, callee_called |-> FALSE]

\* the record of a finished call: what it raised, what it returned (a number
\* in value, a store in store), and what it did on the way
Ret(op, arg, raised, value, store, gateways_created, embed_calls, index_built, callee_called) ==
    [op |-> op, arg |-> arg, raised |-> raised, value |-> value, store |-> store,
     docs |-> <<>>, gateways_created |-> gateways_created,
     embed_calls |-> embed_calls, index_built |-> index_built,
     callee_called |-> callee_called]

\* what the embedding gateway can do during a build of n vectors: succeed,
\* refuse the client, or fail at the first or at the last embedding call
BuildEnvs(n) ==
    {<<TRUE, 0>>, <<FALSE, 0>>} \cup {<<TRUE, j>> : j \in {1, n} \cap (1..n)}

\* no ask() call is in flight
Quiet == \A t \in Threads : call[t].pc \in {"idle", "done"}

AllIdle == [t \in Threads |-> IdleCall]

\* KnowledgeBaseRAG.__init__
InitOrchestrator ==
    /\ documents = <<>>
    /\ chunks = <<>>
    /\ vectorstore = None
    /\ embeddings = None
    /\ llm = None
    /\ call = AllIdle
    /\ ret = NoRet

Init ==
    /\ InitOrchestrator
    /\ \E b \in {None} \cup {Persisted(cs) : cs \in ForeignIndexes} :
           disk = [p \in Paths |-> IF p = "vector_index" THEN b ELSE None]
    /\ origin = [p \in Paths |-> None]

\* load(directory)
Load(directory) ==
    /\ Quiet
    /\ documents' = load_knowledge_base(directory)
    /\ ret' = Ret("load", <<directory>>, NoException, Len(documents'), None,
                  0, 0, FALSE, TRUE)
    /\ call' = AllIdle
    /\ UNCHANGED <<chunks, vectorstore, embeddings, llm, disk, origin>>

\* a process() without the test for loaded documents
Process_unguarded(chunk_size, chunk_overlap) ==
    /\ Quiet
    /\ chunks' = create_chunks(documents, chunk_size, chunk_overlap)
    /\ ret' = Ret("process", <<chunk_size, chunk_overlap>>, NoException,
                  Len(chunks'), None, 0, 0, FALSE, TRUE)
    /\ call' = AllIdle
    /\ UNCHANGED <<documents, vectorstore, embeddings, llm, disk, origin>>

\* process(chunk_size, chunk_overlap)
Process(chunk_size, chunk_overlap) ==
    /\ Quiet
    /\ IF documents = <<>>
       THEN /\ ret' = Ret("process", <<chunk_size, chunk_overlap>>, NoException,
                          0, None, 0, 0, FALSE, FALSE)
            /\ UNCHANGED chunks
       ELSE /\ chunks' = create_chunks(documents, chunk_size, chunk_overlap)
            /\ ret' = Ret("process", <<chunk_size, chunk_overlap>>, NoException,
                          Len(chunks'), None, 0, 0, FALSE, TRUE)
    /\ call' = AllIdle
    /\ UNCHANGED <<documents, vectorstore, embeddings, llm, disk, origin>>

\* an index() that fills the attached index in place: a build that fails
\* leaves the vectors made so far attached
IndexOutcome_in_place(aws_ok, fail_at) ==
    IF chunks = <<>>
    THEN [embeddings |-> embeddings, vectorstore |-> vectorstore,
          ret |-> Ret("index", <<>>, NoException, 0, None, 0, 0, FALSE, FALSE)]
    ELSE LET e == create_embeddings(aws_ok)
             r == create_vector_store(chunks, e, aws_ok, fail_at)
         IN  IF e = None
             THEN [embeddings |-> embeddings, vectorstore |-> vectorstore,
                   ret |-> Ret("index", <<>>, "ClientError", 0, None, 1, 0, FALSE, FALSE)]
             ELSE IF r.raised # NoException
             THEN [embeddings |-> e,
                   vectorstore |-> FAISS_from_documents(
                                       SubSeq(chunks, 1, r.embed_calls - 1), e),
                   ret |-> Ret("index", <<>>, r.raised, 0, None,
                               1 + r.gateways_created, r.embed_calls, FALSE, TRUE)]
             ELSE [embeddings |-> e, vectorstore |-> r.value,
                   ret |-> Ret("index", <<>>, NoException, Len(r.value.index), None,
                               1 + r.gateways_created, r.embed_calls, TRUE, TRUE)]

\* index(): what it assigns and returns, given whether a gateway client can
\* be created and which embedding call fails
IndexOutcome(aws_ok, fail_at) ==
    IF chunks = <<>>
    THEN [embeddings |-> embeddings, vectorstore |-> vectorstore,
          ret |-> Ret("index", <<>>, NoException, 0, None, 0, 0, FALSE, FALSE)]
    ELSE LET e == create_embeddings(aws_ok)
             r == create_vector_store(chunks, e, aws_ok, fail_at)
         IN  IF e = None
             THEN [embeddings |-> embeddings, vectorstore |-> vectorstore,
                   ret |-> Ret("index", <<>>, "ClientError", 0, None, 1, 0, FALSE, FALSE)]
             ELSE IF r.raised # NoException
             THEN [embeddings |-> e, vectorstore |-> vectorstore,
                   ret |-> Ret("index", <<>>, r.raised, 0, None,
                               1 + r.gateways_created, r.embed_calls, FALSE, TRUE)]
             ELSE [embeddings |-> e, vectorstore |-> r.value,
                   ret |-> Ret("index", <<>>, NoException, Len(r.value.index), None,
                               1 + r.gateways_created, r.embed_calls, TRUE, TRUE)]

Index ==
    /\ Quiet
    /\ \E env \in BuildEnvs(Len(chunks)) :
         LET o == IndexOutcome(env[1], env[2])
         IN  /\ embeddings' = o.embeddings
             /\ vectorstore' = o.vectorstore
             /\ ret' = o.ret
    /\ call' = AllIdle
    /\ UNCHANGED <<documents, chunks, llm, disk, origin>>

\* save(path)
Save(path) ==
    /\ Quiet
    /\ IF vectorstore # None
       THEN LET r == save_vector_store(vectorstore, path, disk)
            IN  /\ disk' = r.disk
                /\ origin' = [origin EXCEPT ![path] = vectorstore]
                /\ ret' = Ret("save", <<path>>, r.raised, 0, None, 0, 0, FALSE, TRUE)
       ELSE /\ ret' = Ret("save", <<path>>, NoException, 0, None, 0, 0, FALSE, FALSE)
            /\ UNCHANGED <<disk, origin>>
    /\ call' = AllIdle
    /\ UNCHANGED <<documents, chunks, vectorstore, embeddings, llm>>

\* load_index(path): what it assigns, given whether a gateway client can be
\* created
LoadIndexOutcome(path, aws_ok) ==
    LET e == create_embeddings(aws_ok)
        r == load_vector_store(path, e, disk, aws_ok)
    IN  IF e = None
        THEN [embeddings |-> embeddings, vectorstore |-> vectorstore,
              ret |-> Ret("load_index", <<path>>, "ClientError", 0, None, 1, 0, FALSE, FALSE)]
        ELSE IF r.raised # NoException
        THEN [embeddings |-> e, vectorstore |-> vectorstore,
              ret |-> Ret("load_index", <<path>>, r.raised, 0, None,
                          1 + r.gateways_created, r.embed_calls, FALSE, TRUE)]
        ELSE [embeddings |-> e, vectorstore |-> r.value,
              ret |-> Ret("load_index", <<path>>, NoException, 0, None,
                          1 + r.gateways_created, r.embed_calls, TRUE, TRUE)]

LoadIndex(path) ==
    /\ Quiet
    /\ \E aws_ok \in BOOLEAN :
         LET o == LoadIndexOutcome(path, aws_ok)
         IN  /\ embeddings' = o.embeddings
             /\ vectorstore' = o.vectorstore
             /\ ret' = o.ret
    /\ call' = AllIdle
    /\ UNCHANGED <<documents, chunks, llm, disk, origin>>

(***************************************************************************)
(* ask(question, k, show_context).  The call is a record that the steps of *)
(* the method transform: _init_llm, the readiness check, the retrieval,    *)
(* and the generation with the packaging of the result.  "events" lists,   *)
(* in order, the calls the method makes to its collaborators.              *)
(***************************************************************************)

\* the answers of the two outcomes that make no generation call; the fixed
\* phrases the tests look for are symbols of their own
NotInitializedAnswer ==
    <<"Knowledge base ", "not initialized", ". Load documents and create index first.">>
NoResultsAnswer ==
    <<"No relevant information", " found in the knowledge base for this question.">>

\* the fixed text of the prompt around the context and the question, one
\* symbol for each literal piece of the f-string
PromptHead == <<"Based on the following context ... say so clearly.\n\nContext:\n">>
PromptQuestion == <<"\n\nQuestion: ">>
PromptTail == <<"\n\nAnswer: Provide a clear, comprehensive answer ... when relevant.">>

Event(ev, text, k) == [ev |-> ev, text |-> text, k |-> k]

RECURSIVE Str(_)
\* str(n) for n >= 0
Str(n) ==
    IF n < 10 THEN <<ToString(n)>> ELSE Str(n \div 10) \o <<ToString(n % 10)>>

\* f"[Source {i}: {source} by {author}]\n{doc.page_content}"
ContextPart(i, doc) ==
    <<"[", "S", "o", "u", "r", "c", "e", " ">> \o Str(i) \o <<":", " ">>
        \o Get(doc.metadata, K_source, Unknown)
        \o <<" ", "b", "y", " ">>
        \o Get(doc.metadata, K_author, Unknown)
        \o <<"]", "\n">> \o doc.page_content

\* a context that keeps only the first chunk of each source file
BuildContext_first_per_file(relevant_docs) ==
    LET firsts == SelectSeq([i \in 1..Len(relevant_docs) |-> i],
                            LAMBDA i : \A j \in 1..(i - 1) :
                                Get(relevant_docs[j].metadata, K_source, Unknown)
                                    # Get(relevant_docs[i].metadata, K_source, Unknown))
    IN  Join(<<"\n", "\n">>,
             [r \in 1..Len(firsts) |-> ContextPart(r, relevant_docs[firsts[r]])])

\* the loop that builds context_parts, then "\n\n".join
BuildContext(relevant_docs) ==
    Join(<<"\n", "\n">>,
         [i \in 1..Len(relevant_docs) |-> ContextPart(i, relevant_docs[i])])

\* the prompt f-string
BuildPrompt(context, question) ==
    PromptHead \o context \o PromptQuestion \o question \o PromptTail

\* a citation record that leaves out the fields the chunk's metadata does
\* not have
SourceInfo_omits_missing(doc) ==
    LET field == [file |-> K_source, author |-> K_author, topic |-> K_topic]
    IN  [name \in {n \in DOMAIN field : field[n] \in DOMAIN doc.metadata} |->
            doc.metadata[field[name]]]

\* a citation record that tells the chunks of a file apart: the topic field
\* holds the chunk's text
SourceInfo_per_chunk(doc) ==
    [file |-> Get(doc.metadata, K_source, Unknown),
     author |-> Get(doc.metadata, K_author, Unknown),
     topic |-> doc.page_content]

SourceInfo(doc) ==
    [file |-> Get(doc.metadata, K_source, Unknown),
     author |-> Get(doc.metadata, K_author, Unknown),
     topic |-> Get(doc.metadata, K_topic, Unknown)]

InSeq(x, seq) == \E i \in 1..Len(seq) : seq[i] = x

\* the sources without the membership test: one record per chunk
ExtractSources_no_dedup(relevant_docs, sources) ==
    sources \o [i \in 1..Len(relevant_docs) |-> SourceInfo(relevant_docs[i])]

RECURSIVE ExtractSources(_, _)
\* the loop over relevant_docs that appends each source_info not yet listed
ExtractSources(relevant_docs, sources) ==
    IF relevant_docs = <<>> THEN sources
    ELSE LET source_info == SourceInfo(Head(relevant_docs))
         IN  ExtractSources(Tail(relevant_docs),
                            IF InSeq(source_info, sources) THEN sources
                            ELSE Append(sources, source_info))

Result(question, answer, sources, num_chunks_used) ==
    [question |-> question, answer |-> answer, sources |-> sources,
     num_chunks_used |-> num_chunks_used]

Raise(c, exception) == [c EXCEPT !.pc = "done", !.raised = exception]

Return(c, result) == [c EXCEPT !.pc = "done", !.result = result]

\* the call record when ask(question, k, show_context) is entered
EnterAsk(question, k, show_context) ==
    [IdleCall EXCEPT !.pc = "init_llm", !.question = question, !.k = k,
                     !.show_context = show_context]

\* self._init_llm(): the client is created only when there is none, and
\* creating it can fail
InitLlmStep(c, llm_, aws_ok) ==
    IF llm_ # None THEN [call |-> [c EXCEPT !.pc = "guard"], llm |-> llm_]
    ELSE IF aws_ok
    THEN [call |-> [c EXCEPT !.pc = "guard",
                             !.events = Append(@, Event("create_llm_client", <<>>, 0))],
          llm |-> LlmModel]
    ELSE [call |-> Raise(c, "ClientError"), llm |-> llm_]

\* "if not self.vectorstore"
GuardStep(c, vectorstore_) ==
    IF vectorstore_ = None
    THEN Return(c, Result(c.question, NotInitializedAnswer, <<>>, 0))
    ELSE [c EXCEPT !.pc = "search"]

\* the retrieval with the default k whatever the caller passed
SearchStep_default_k(c, vectorstore_, embed_ok) ==
    LET r == search(vectorstore_, c.question, DefaultK)
        c1 == [c EXCEPT !.events = Append(@, Event("search", c.question, DefaultK))]
        c2 == [c1 EXCEPT !.events = Append(@, Event("embed_query", c.question, 0))]
    IN  IF r.raised # NoException THEN Raise(c1, r.raised)
        ELSE IF ~embed_ok THEN Raise(c2, "GatewayError")
        ELSE LET c3 == [c2 EXCEPT !.search_returned = TRUE,
                                  !.relevant_docs = r.value]
             IN  IF r.value = <<>>
                 THEN Return(c3, Result(c.question, NoResultsAnswer, <<>>, 0))
                 ELSE [c3 EXCEPT !.pc = "generate"]

\* the retrieval without the return on an empty result
SearchStep_no_empty_return(c, vectorstore_, embed_ok) ==
    LET r == search(vectorstore_, c.question, c.k)
        c1 == [c EXCEPT !.events = Append(@, Event("search", c.question, c.k))]
        c2 == [c1 EXCEPT !.events = Append(@, Event("embed_query", c.question, 0))]
    IN  IF r.raised # NoException THEN Raise(c1, r.raised)
        ELSE IF ~embed_ok THEN Raise(c2, "GatewayError")
        ELSE [c2 EXCEPT !.pc = "generate", !.search_returned = TRUE,
                        !.relevant_docs = r.value]

\* relevant_docs = search(self.vectorstore, question, k=k), whose embedding
\* of the question can fail, and the return when nothing was found
SearchStep(c, vectorstore_, embed_ok) ==
    LET r == search(vectorstore_, c.question, c.k)
        c1 == [c EXCEPT !.events = Append(@, Event("search", c.question, c.k))]
        c2 == [c1 EXCEPT !.events = Append(@, Event("embed_query", c.question, 0))]
    IN  IF r.raised # NoException THEN Raise(c1, r.raised)
        ELSE IF ~embed_ok THEN Raise(c2, "GatewayError")
        ELSE LET c3 == [c2 EXCEPT !.search_returned = TRUE,
                                  !.relevant_docs = r.value]
             IN  IF r.value = <<>>
                 THEN Return(c3, Result(c.question, NoResultsAnswer, <<>>, 0))
                 ELSE [c3 EXCEPT !.pc = "generate"]

\* a generation that invokes the gateway a second time when it fails
GenerateStep_retry(c, llm_, generation) ==
    LET prompt == BuildPrompt(BuildContext(c.relevant_docs), c.question)
        c1 == [c EXCEPT !.prompt = prompt]
        c2 == [c1 EXCEPT !.events = Append(@, Event("llm_invoke", prompt, 0))]
        c3 == [c2 EXCEPT !.events = Append(@, Event("llm_invoke", prompt, 0))]
    IN  IF llm_ = None THEN Raise(c1, "AttributeError")
        ELSE IF generation = GenerationFailure
        THEN Raise([c3 EXCEPT !.response = generation], "GatewayError")
        ELSE Return([c2 EXCEPT !.response = generation],
                    Result(c.question, generation.content,
                           ExtractSources(c.relevant_docs, <<>>),
                           Len(c.relevant_docs)))

\* the context, the prompt, self.llm.invoke(prompt), the sources and the
\* result; generation is what the gateway does with the prompt
GenerateStep(c, llm_, generation) ==
    LET prompt == BuildPrompt(BuildContext(c.relevant_docs), c.question)
        c1 == [c EXCEPT !.prompt = prompt]
        c2 == [c1 EXCEPT !.events = Append(@, Event("llm_invoke", prompt, 0))]
    IN  IF llm_ = None THEN Raise(c1, "AttributeError")
        ELSE IF generation = GenerationFailure
        THEN Raise([c2 EXCEPT !.response = generation], "GatewayError")
        ELSE Return([c2 EXCEPT !.response = generation],
                    Result(c.question, generation.content,
                           ExtractSources(c.relevant_docs, <<>>),
                           Len(c.relevant_docs)))

\* one step of a call, from where it stands; env is what the collaborators
\* do in that step
AskStep(c, llm_, vectorstore_, env) ==
    CASE c.pc = "init_llm" -> InitLlmStep(c, llm_, env.aws_ok)
      [] c.pc = "guard" -> [call |-> GuardStep(c, vectorstore_), llm |-> llm_]
      [] c.pc = "search" ->
            [call |-> SearchStep(c, vectorstore_, env.embed_ok), llm |-> llm_]
      [] c.pc = "generate" ->
            [call |-> GenerateStep(c, llm_, env.generation), llm |-> llm_]
      [] OTHER -> [call |-> c, llm |-> llm_]

\* the whole of ask(): its four steps in order, each from the state the one
\* before left
RunAsk(question, k, show_context, llm_, vectorstore_, env) ==
    LET s1 == AskStep(EnterAsk(question, k, show_context), llm_, vectorstore_, env)
        s2 == AskStep(s1.call, s1.llm, vectorstore_, env)
        s3 == AskStep(s2.call, s2.llm, vectorstore_, env)
    IN  AskStep(s3.call, s3.llm, vectorstore_, env)

\* one of the answers, for the calls that never reach the generation
AnAnswer == CHOOSE x \in Generations : x # GenerationFailure

Env(aws_ok, embed_ok, generation) ==
    [aws_ok |-> aws_ok, embed_ok |-> embed_ok, generation |-> generation]

\* what the collaborators can do during one call: all succeed, with each
\* answer, or one of them fails (a call ends at the first failure it meets)
Envs ==
    {Env(TRUE, TRUE, g) : g \in Generations}
        \cup {Env(FALSE, TRUE, AnAnswer), Env(TRUE, FALSE, AnAnswer)}

\* the arguments of the ask() calls: every question with every k, and the
\* context display with the default k
AskInputs ==
    {<<q, k, FALSE>> : q \in Questions, k \in Ks}
        \cup {<<q, DefaultK, TRUE>> : q \in Questions}

\* ask(question, k, show_context) by thread t, run to its end
Ask(t, question, k, show_context) ==
    /\ Quiet
    /\ \E env \in Envs :
         LET o == RunAsk(question, k, show_context, llm, vectorstore, env)
         IN  /\ call' = [AllIdle EXCEPT ![t] = o.call]
             /\ llm' = o.llm
    /\ ret' = NoRet
    /\ UNCHANGED <<documents, chunks, vectorstore, embeddings, disk, origin>>

(***************************************************************************)
(* ask() called by two threads on one orchestrator.  The steps of the two  *)
(* calls interleave; _init_llm is two steps here, the test of self.llm and *)
(* the creation and assignment of the client, so that both threads can     *)
(* find self.llm unset.  The index is loaded only while no call is in      *)
(* flight.                                                                 *)
(***************************************************************************)

\* "if self.llm is None"
InitLlmCheck(c, llm_) ==
    IF llm_ # None THEN [c EXCEPT !.pc = "guard"] ELSE [c EXCEPT !.pc = "create_llm"]

\* client = boto3.client(...); self.llm = ChatBedrock(...)
InitLlmCreate(c, llm_, aws_ok) ==
    IF aws_ok
    THEN [call |-> [c EXCEPT !.pc = "guard",
                             !.events = Append(@, Event("create_llm_client", <<>>, 0))],
          llm |-> LlmModel]
    ELSE [call |-> Raise(c, "ClientError"), llm |-> llm_]

\* one step of a call among concurrent calls
ConcStep(c, llm_, vectorstore_, env) ==
    CASE c.pc = "init_llm" -> [call |-> InitLlmCheck(c, llm_), llm |-> llm_]
      [] c.pc = "create_llm" -> InitLlmCreate(c, llm_, env.aws_ok)
      [] OTHER -> AskStep(c, llm_, vectorstore_, env)

\* the arguments of the concurrent calls: every question, with the smallest
\* and the largest k
ConcInputs == {<<q, k>> : q \in Questions, k \in {1, MaxK}}

\* thread t enters ask(question, k)
AskEnter(t, question, k) ==
    /\ call[t].pc \in {"idle", "done"}
    /\ call' = [call EXCEPT ![t] = EnterAsk(question, k, FALSE)]
    /\ ret' = NoRet
    /\ UNCHANGED <<documents, chunks, vectorstore, embeddings, llm, disk, origin>>

\* a variant in which the retrieved chunks are kept in a field of the
\* orchestrator: the step of one thread overwrites what the other threads
\* that wait for the generation retrieved
AskAdvance_shared_docs(t) ==
    /\ call[t].pc \notin {"idle", "done"}
    /\ \E env \in Envs :
         LET o == ConcStep(call[t], llm, vectorstore, env)
         IN  /\ call' = [u \in Threads |->
                            IF u = t THEN o.call
                            ELSE IF call[u].pc = "generate" /\ o.call.pc = "generate"
                            THEN [call[u] EXCEPT !.relevant_docs = o.call.relevant_docs]
                            ELSE call[u]]
             /\ llm' = o.llm
    /\ ret' = NoRet
    /\ UNCHANGED <<documents, chunks, vectorstore, embeddings, disk, origin>>

\* thread t's call takes its next step
AskAdvance(t) ==
    /\ call[t].pc \notin {"idle", "done"}
    /\ \E env \in Envs :
         LET o == ConcStep(call[t], llm, vectorstore, env)
         IN  /\ call' = [call EXCEPT ![t] = o.call]
             /\ llm' = o.llm
    /\ ret' = NoRet
    /\ UNCHANGED <<documents, chunks, vectorstore, embeddings, disk, origin>>

NextConc ==
    \/ \E p \in Paths : LoadIndex(p)
    \/ \E t \in Threads, a \in ConcInputs : AskEnter(t, a[1], a[2])
    \/ \E t \in Threads : AskAdvance(t)

\* two threads calling ask() on one orchestrator
SpecConc == Init /\ [][NextConc]_vars

(***************************************************************************)
(* build_knowledge_base(load_existing, save_index), step by step on a new  *)
(* orchestrator, and the ask() calls of its caller on the orchestrator it  *)
(* returns.  The position in the function is the operation that ret        *)
(* records; a step that raises ends the function without a value.  The     *)
(* directory of a step stands for what is found at the default path.       *)
(***************************************************************************)

\* what can be found at the default document path: files, some of them
\* unreadable or blank, no file, or no directory
BuildDirectories == {"knowledge_base", "notes", "broken", "empty_dir", "no_such_dir"}

\* kb = KnowledgeBaseRAG()
NewOrchestrator == ret = NoRet /\ call = AllIdle

\* load_existing and os.path.exists("vector_index"): kb.load_index()
BkbLoadExisting ==
    /\ NewOrchestrator
    /\ disk["vector_index"] # None
    /\ LoadIndex("vector_index")

\* not load_existing: kb.load()
BkbLoad(directory) ==
    /\ NewOrchestrator
    /\ Load(directory)

\* load_existing without a persisted index: the else branch, kb.load()
BkbFallback(directory) ==
    /\ NewOrchestrator
    /\ disk["vector_index"] = None
    /\ Load(directory)

\* kb.process()
BkbProcess ==
    /\ ret.op = "load"
    /\ Process(DefaultChunkSize, DefaultChunkOverlap)

\* kb.index()
BkbIndex ==
    /\ ret.op = "process"
    /\ Index

\* if save_index: kb.save()
BkbSave ==
    /\ ret.op = "index"
    /\ ret.raised = NoException
    /\ Save("vector_index")

\* return kb: the function has returned, after kb.load_index(), after
\* kb.index() without save_index, or after kb.save(); or its caller has
\* called ask() already
Returned ==
    \/ ret.op \in {"load_index", "index", "save"} /\ ret.raised = NoException
    \/ ret = NoRet /\ call # AllIdle

\* an ask() of the caller of build_knowledge_base
BkbAsk(question, k) ==
    /\ Returned
    /\ Ask(1, question, k, FALSE)

NextBuild ==
    \/ BkbLoadExisting
    \/ \E d \in BuildDirectories : BkbLoad(d)
    \/ \E d \in BuildDirectories : BkbFallback(d)
    \/ BkbProcess
    \/ BkbIndex
    \/ BkbSave
    \/ \E q \in Questions, k \in Ks : BkbAsk(q, k)

\* build_knowledge_base and the questions of its caller
SpecBuild == Init /\ [][NextBuild]_vars

(***************************************************************************)
(* interactive(): the loop that reads a line, stops at a word of its list  *)
(* and calls ask() otherwise.  The session is the record in ret: the lines *)
(* read so far, the questions passed to ask(), whether the loop is still   *)
(* running, and the exception that ended it, if one did.                   *)
(***************************************************************************)

\* bound of the model: the number of lines a session reads
MaxLines == 3

\* ['quit', 'exit', 'q', '']
ExitWords == {<<"q", "u", "i", "t">>, <<"e", "x", "i", "t">>, <<"q">>, <<>>}

\* what the user can type: questions, one of them padded; the words that end
\* the session, in upper case and padded; a question that begins like such
\* a word; the empty line and a line of blanks
Lines ==
    { <<"c">>, <<" ", "d", "d">>, <<"q", "q">>,
      <<"Q">>, <<"q", "u", "i", "t", " ">>, <<"E", "x", "i", "t">>,
      <<>>, <<" ">> }

Session(read, asked, running, raised) ==
    [op |-> "interactive", read |-> read, asked |-> asked, running |-> running,
     raised |-> raised]

\* kb.interactive() is called on a new orchestrator
InteractiveStart ==
    /\ ret = NoRet
    /\ call = AllIdle
    /\ ret' = Session(<<>>, <<>>, TRUE, NoException)
    /\ UNCHANGED <<documents, chunks, vectorstore, embeddings, llm, disk, origin, call>>

\* one turn of the loop: question = input(...).strip(), the test against
\* the list, and self.ask(question), whose exception ends the loop
InteractiveLine(line) ==
    /\ ret.op = "interactive"
    /\ ret.running
    /\ Len(ret.read) < MaxLines
    /\ LET question == Strip(line)
       IN  IF Lower(question) \in ExitWords
           THEN /\ ret' = [ret EXCEPT !.read = Append(@, line), !.running = FALSE]
                /\ UNCHANGED <<call, llm>>
           ELSE \E env \in Envs :
                    LET o == RunAsk(question, DefaultK, FALSE, llm, vectorstore, env)
                    IN  /\ call' = [AllIdle EXCEPT ![1] = o.call]
                        /\ llm' = o.llm
                        /\ ret' = [ret EXCEPT !.read = Append(@, line),
                                              !.asked = Append(@, question),
                                              !.running = o.call.raised = NoException,
                                              !.raised = o.call.raised]
    /\ UNCHANGED <<documents, chunks, vectorstore, embeddings, disk, origin>>

NextInteractive ==
    \/ InteractiveStart
    \/ \E line \in Lines : InteractiveLine(line)

\* an interactive session on a new orchestrator
SpecInteractive == Init /\ [][NextInteractive]_vars

(***************************************************************************)
(* vectorstore.py called directly, as its own script and its tests do: the *)
(* caller holds one store (in vectorstore) and calls create_vector_store,  *)
(* save_vector_store, load_vector_store and search on it.                  *)
(***************************************************************************)

\* vectorstore = create_vector_store(cs, emb)
VsCreate(cs, emb) ==
    /\ \E env \in BuildEnvs(Len(cs)) :
         LET r == create_vector_store(cs, emb, env[1], env[2])
         IN  /\ ret' = Ret("create_vector_store", <<cs, emb>>, r.raised, 0, r.value,
                           r.gateways_created, r.embed_calls, r.index_built, TRUE)
             /\ vectorstore' = IF r.raised = NoException THEN r.value ELSE vectorstore
    /\ UNCHANGED <<documents, chunks, embeddings, llm, disk, origin, call>>

\* save_vector_store(vectorstore, path)
VsSave(path) ==
    /\ LET r == save_vector_store(vectorstore, path, disk)
       IN  /\ disk' = r.disk
           /\ origin' = IF r.raised = NoException
                        THEN [origin EXCEPT ![path] = vectorstore] ELSE origin
           /\ ret' = Ret("save_vector_store", <<path>>, r.raised, 0, None,
                         0, 0, FALSE, r.raised = NoException)
    /\ UNCHANGED <<documents, chunks, vectorstore, embeddings, llm, call>>

\* vectorstore = load_vector_store(path, emb)
VsLoad(path, emb) ==
    /\ \E aws_ok \in BOOLEAN :
         LET r == load_vector_store(path, emb, disk, aws_ok)
         IN  /\ ret' = Ret("load_vector_store", <<path, emb>>, r.raised, 0, r.value,
                           r.gateways_created, r.embed_calls, r.index_built, TRUE)
             /\ vectorstore' = IF r.raised = NoException THEN r.value ELSE vectorstore
    /\ UNCHANGED <<documents, chunks, embeddings, llm, disk, origin, call>>

\* results = search(vectorstore, query, k), whose embedding of the query can
\* fail
VsSearch(query, k) ==
    /\ \E embed_ok \in BOOLEAN :
         LET r == search(vectorstore, query, k)
             raised == IF r.raised # NoException THEN r.raised
                       ELSE IF ~embed_ok THEN "GatewayError" ELSE NoException
         IN  ret' = [Ret("search", <<query, k>>, raised, 0, None, 0,
                         IF r.raised = NoException THEN 1 ELSE 0,
                         FALSE, r.raised = NoException)
                     EXCEPT !.docs = IF raised = NoException THEN r.value ELSE <<>>]
    /\ UNCHANGED <<documents, chunks, vectorstore, embeddings, llm, disk, origin, call>>

\* results = search_with_scores(vectorstore, query, k), whose embedding of the
\* query can fail
VsSearchWithScores(query, k) ==
    /\ \E embed_ok \in BOOLEAN :
         LET r == search_with_scores(vectorstore, query, k)
             raised == IF r.raised # NoException THEN r.raised
                       ELSE IF ~embed_ok THEN "GatewayError" ELSE NoException
         IN  ret' = [Ret("search_with_scores", <<query, k>>, raised, 0, None, 0,
                         IF r.raised = NoException THEN 1 ELSE 0,
                         FALSE, r.raised = NoException)
                     EXCEPT !.docs = IF raised = NoException THEN r.value ELSE <<>>]
    /\ UNCHANGED <<documents, chunks, vectorstore, embeddings, llm, disk, origin, call>>

(***************************************************************************)
(* loader.py called directly, as its tests do: parse_metadata on a text,   *)
(* load_knowledge_base on a directory, create_chunks on a document list.   *)
(***************************************************************************)

\* bounds of the model: the lines of a header, the documents of a list
MaxHeaderLines == 2
MaxDocs == 2

\* header lines: "A: a"; " Ts : b " (key and value padded); "note" (no
\* colon); "t:a:b" (a colon in the value); "a:f" (the key of the first line
\* in lower case); "s:a---b" (the delimiter in the value)
HeaderLinePool ==
    { <<"A", ":", " ", "a">>,
      <<" ", "T", "s", " ", ":", " ", "b", " ">>,
      <<"n", "o", "t", "e">>,
      <<"t", ":", "a", ":", "b">>,
      <<"a", ":", "f">>,
      <<"s", ":", "a", "-", "-", "-", "b">> }

HeaderLineLists == UNION {[1..m -> HeaderLinePool] : m \in 0..MaxHeaderLines}

\* what follows the second delimiter: "\nab", " ba \n", "", "\nc---d"
Bodies ==
    { <<"\n", "a", "b">>, <<" ", "b", "a", " ", "\n">>, <<>>,
      <<"\n", "c", "-", "-", "-", "d">> }

\* a text that starts with a header: delimiter, header lines, delimiter, body
WellFormed(lines, body) ==
    DELIM \o <<"\n">> \o Join(<<"\n">>, lines) \o <<"\n">> \o DELIM \o body

\* texts without a header: "", "cc", " ba ", " ---\nA: a\n---\nab" (the
\* delimiter is not at the start), "---\nA: a\nab " (one delimiter), "--",
\* "-----", "ab---cd---ef\n", "---"
RawContents ==
    { <<>>, <<"c", "c">>, <<" ", "b", "a", " ">>,
      <<" ">> \o DELIM \o <<"\n", "A", ":", " ", "a", "\n">> \o DELIM \o <<"\n", "a", "b">>,
      DELIM \o <<"\n", "A", ":", " ", "a", "\n", "a", "b", " ">>,
      <<"-", "-">>, <<"-", "-", "-", "-", "-">>,
      <<"a", "b">> \o DELIM \o <<"c", "d">> \o DELIM \o <<"e", "f", "\n">>,
      DELIM }

\* documents given to create_chunks: with paragraphs, short, padded with
\* whitespace, empty, of whitespace only, one unbroken word
DocPool ==
    { Document(<<"a", "b", " ", "c", "d", "\n", "\n", "e", "f">>, FullMetadata),
      Document(<<"c", "c">>, SourceOnly),
      Document(<<" ", "b", "a", " ">>, SourceOnly),
      Document(<<>>, FullMetadata),
      Document(<<" ", "\n">>, SourceOnly),
      Document(<<"a", "b", "c", "d", "e", "f", "a", "b">>, FullMetadata) }

DocLists == UNION {[1..m -> DocPool] : m \in 0..MaxDocs}

\* chunk sizes with their overlaps: the defaults and small ones
SizeParams == ChunkParams \cup {<<3, 0>>, <<3, 2>>}

\* the record of a call of a function of loader.py: its arguments, what the
\* arguments were made of, and its value
Called(op, arg, given, out) == [op |-> op, arg |-> arg, given |-> given, out |-> out]

InitLoader ==
    /\ InitOrchestrator
    /\ disk = [p \in Paths |-> None]
    /\ origin = [p \in Paths |-> None]

\* no function was called yet: a run of this specification is one call
Fresh == ret = NoRet

\* parse_metadata(content) on a text with a header
LdParseHeader(lines, body) ==
    /\ Fresh
    /\ ret' = Called("parse_metadata", <<WellFormed(lines, body)>>,
                     [lines |-> lines, body |-> body],
                     parse_metadata(WellFormed(lines, body)))
    /\ UNCHANGED <<documents, chunks, vectorstore, embeddings, llm, disk, origin, call>>

\* parse_metadata(content) on any other text
LdParse(content) ==
    /\ Fresh
    /\ ret' = Called("parse_metadata", <<content>>, None, parse_metadata(content))
    /\ UNCHANGED <<documents, chunks, vectorstore, embeddings, llm, disk, origin, call>>

\* load_knowledge_base(directory)
LdLoad(directory) ==
    /\ Fresh
    /\ ret' = Called("load_knowledge_base", <<directory>>, None,
                     load_knowledge_base(directory))
    /\ UNCHANGED <<documents, chunks, vectorstore, embeddings, llm, disk, origin, call>>

\* create_chunks(docs, chunk_size, chunk_overlap)
LdChunks(docs, chunk_size, chunk_overlap) ==
    /\ Fresh
    /\ ret' = Called("create_chunks", <<docs, chunk_size, chunk_overlap>>, None,
                     create_chunks(docs, chunk_size, chunk_overlap))
    /\ UNCHANGED <<documents, chunks, vectorstore, embeddings, llm, disk, origin, call>>

NextLoader ==
    \/ \E lines \in HeaderLineLists, body \in Bodies : LdParseHeader(lines, body)
    \/ \E content \in RawContents : LdParse(content)
    \/ \E d \in Directories : LdLoad(d)
    \/ \E docs \in DocLists, sp \in SizeParams : LdChunks(docs, sp[1], sp[2])

\* the functions of loader.py called directly
SpecLoader == InitLoader /\ [][NextLoader]_vars

NextVS ==
    \/ \E cs \in ChunkLists, emb \in {None, EmbeddingsModel} : VsCreate(cs, emb)
    \/ \E p \in SavePaths : VsSave(p)
    \/ \E p \in Paths, emb \in {None, EmbeddingsModel} : VsLoad(p, emb)
    \/ \E q \in Questions, k \in Ks : VsSearch(q, k)
    \/ \E q \in Questions, k \in Ks : VsSearchWithScores(q, k)

\* the functions of vectorstore.py called directly
SpecVS == Init /\ [][NextVS]_vars

Next ==
    \/ \E d \in LoadDirectories : Load(d)
    \/ \E cp \in ChunkParams : Process(cp[1], cp[2])
    \/ Index
    \/ \E p \in SavePaths : Save(p)
    \/ \E p \in Paths : LoadIndex(p)
    \/ \E t \in SeqThreads, a \in AskInputs : Ask(t, a[1], a[2], a[3])

Spec == Init /\ [][Next]_vars

(***************************************************************************)
(* Properties of ask().                                                    *)
(***************************************************************************)

\* the calls of one kind that a call of ask() made
EventsOf(c, ev) == {i \in 1..Len(c.events) : c.events[i].ev = ev}

\* the calls to the embedding gateway, to the index and to the generation
\* gateway
GatewayCalls(c) ==
    {i \in 1..Len(c.events) : c.events[i].ev \in {"search", "embed_query", "llm_invoke"}}

\* thread t's call of ask() has ended, by a return or by an exception
Ended(t) == call[t].pc = "done"

\* C1: every ask() on an orchestrator with no index attached returns a
\* result whose answer holds the 'not initialized' marker, with no sources
\* and num_chunks_used 0, and makes no call to the embedding gateway, to the
\* index or to the generation gateway.
C1_NoIndexResult ==
    \A t \in SeqThreads :
        (Ended(t) /\ vectorstore = None) =>
            /\ GatewayCalls(call[t]) = {}
            /\ call[t].result # None
            /\ Contains(Lower(call[t].result.answer), <<"not initialized">>)
            /\ call[t].result.sources = <<>>
            /\ call[t].result.num_chunks_used = 0

\* C2: ask() with no index attached never raises, whatever the state of the
\* generation gateway: it ends with the 'not ready' result.
C2_NoIndexNeverRaises ==
    \A t \in SeqThreads :
        (Ended(t) /\ vectorstore = None) =>
            /\ call[t].raised = NoException
            /\ call[t].result =
                   Result(call[t].question, NotInitializedAnswer, <<>>, 0)

\* what does hold with no index attached: no gateway is called, and a call
\* that returns, returns the 'not initialized' result; a call raises only
\* when the generation client cannot be created
NoIndexWhenClientAvailable ==
    \A t \in SeqThreads :
        (Ended(t) /\ vectorstore = None) =>
            /\ GatewayCalls(call[t]) = {}
            /\ call[t].raised \in {NoException, "ClientError"}
            /\ call[t].raised = NoException =>
                   call[t].result =
                       Result(call[t].question, NotInitializedAnswer, <<>>, 0)

\* C3: when an index is attached and the search returns no chunk, ask()
\* returns the fixed 'No relevant information' answer with no sources and
\* num_chunks_used 0, and the generation gateway is not invoked.
C3_NoResults ==
    \A t \in SeqThreads :
        (Ended(t) /\ call[t].search_returned /\ call[t].relevant_docs = <<>>) =>
            /\ call[t].raised = NoException
            /\ call[t].result # None
            /\ call[t].result.question = call[t].question
            /\ StartsWith(call[t].result.answer, <<"No relevant information">>)
            /\ call[t].result.sources = <<>>
            /\ call[t].result.num_chunks_used = 0
            /\ EventsOf(call[t], "llm_invoke") = {}

\* an ask() on an attached index without entries has ended
C3_Witness ==
    \E t \in SeqThreads :
        /\ Ended(t)
        /\ vectorstore # None
        /\ Len(vectorstore.index) = 0
        /\ call[t].search_returned
        /\ call[t].relevant_docs = <<>>
        /\ EventsOf(call[t], "search") # {}

\* the rank of the first retrieved chunk that carries the citation
FirstRank(docs, info) ==
    CHOOSE i \in 1..Len(docs) :
        /\ SourceInfo(docs[i]) = info
        /\ \A j \in 1..(i - 1) : SourceInfo(docs[j]) # info

\* C4: when ask() returns with retrieved chunks, its sources hold the
\* {file, author, topic} record of every retrieved chunk, each distinct
\* record once, in the order of the ranks of their first occurrence, and
\* num_chunks_used is the number of retrieved chunks.
C4_Sources ==
    \A t \in SeqThreads :
        (Ended(t) /\ call[t].raised = NoException /\ call[t].relevant_docs # <<>>) =>
            LET docs == call[t].relevant_docs
                srcs == call[t].result.sources
            IN  /\ \A i \in 1..Len(docs) :
                       \E j \in 1..Len(srcs) : srcs[j] = SourceInfo(docs[i])
                /\ \A j \in 1..Len(srcs) :
                       \E i \in 1..Len(docs) : srcs[j] = SourceInfo(docs[i])
                /\ \A j1, j2 \in 1..Len(srcs) : srcs[j1] = srcs[j2] => j1 = j2
                /\ \A j1, j2 \in 1..Len(srcs) :
                       j1 < j2 => FirstRank(docs, srcs[j1]) < FirstRank(docs, srcs[j2])
                /\ call[t].result.num_chunks_used = Len(docs)

\* an ask() returned with three chunks retrieved, two of them of one source
C4_Witness ==
    \E t \in SeqThreads :
        /\ Ended(t)
        /\ call[t].raised = NoException
        /\ Len(call[t].relevant_docs) = 3
        /\ Len(call[t].result.sources) = 2
        /\ call[t].result.num_chunks_used = 3

\* the label of the block of a chunk, and the block
BlockLabel(rank, doc) ==
    <<"[", "S", "o", "u", "r", "c", "e", " ", ToString(rank), ":", " ">>
        \o (IF K_source \in DOMAIN doc.metadata THEN doc.metadata[K_source] ELSE Unknown)
        \o <<" ", "b", "y", " ">>
        \o (IF K_author \in DOMAIN doc.metadata THEN doc.metadata[K_author] ELSE Unknown)
        \o <<"]">>

Block(rank, doc) == BlockLabel(rank, doc) \o <<"\n">> \o doc.page_content

RECURSIVE BlockStart(_, _)
\* where the block of rank i starts in the prompt
BlockStart(docs, i) ==
    IF i = 1 THEN Len(PromptHead) + 1
    ELSE BlockStart(docs, i - 1) + Len(Block(i - 1, docs[i - 1])) + 2

\* C5: the prompt given to the generation gateway is determined by the
\* question and the retrieved chunks: after the fixed head it holds one block
\* per retrieved chunk, in rank order, labeled with the ranks 1..n, each label
\* followed by the chunk's content, consecutive blocks separated by a blank
\* line, and then the question verbatim between the fixed texts.
C5_Prompt ==
    \A t \in SeqThreads :
        \A e \in EventsOf(call[t], "llm_invoke") :
            LET p == call[t].events[e].text
                docs == call[t].relevant_docs
                n == Len(docs)
            IN  /\ n >= 1
                /\ Len(p) = BlockStart(docs, n) + Len(Block(n, docs[n])) - 1
                              + Len(PromptQuestion) + Len(call[t].question)
                              + Len(PromptTail)
                /\ StartsWith(p, PromptHead)
                /\ \A i \in 1..n :
                       SubSeq(p, BlockStart(docs, i),
                              BlockStart(docs, i) + Len(Block(i, docs[i])) - 1)
                           = Block(i, docs[i])
                /\ \A i \in 1..(n - 1) :
                       SubSeq(p, BlockStart(docs, i) + Len(Block(i, docs[i])),
                              BlockStart(docs, i + 1) - 1) = <<"\n", "\n">>
                /\ From(p, BlockStart(docs, n) + Len(Block(n, docs[n])))
                       = PromptQuestion \o call[t].question \o PromptTail

\* a prompt was built from three chunks, the first and the third of the
\* same file
C5_Witness ==
    \E t \in SeqThreads :
        /\ EventsOf(call[t], "llm_invoke") # {}
        /\ Len(call[t].relevant_docs) = 3
        /\ K_source \in DOMAIN call[t].relevant_docs[1].metadata
        /\ K_source \in DOMAIN call[t].relevant_docs[3].metadata
        /\ call[t].relevant_docs[1].metadata[K_source]
               = call[t].relevant_docs[3].metadata[K_source]
        /\ call[t].relevant_docs[1].page_content # call[t].relevant_docs[3].page_content

\* C6: an ask() that retrieves at least one chunk makes exactly one search,
\* with the question verbatim and the caller's k, and then exactly one
\* generation call, after the search; when it returns, the answer is the
\* output of that call and the question is the input question.
C6_OneSearchOneGeneration ==
    \A t \in SeqThreads :
        (Ended(t) /\ call[t].search_returned /\ call[t].relevant_docs # <<>>) =>
            LET c == call[t]
                searches == EventsOf(c, "search")
                invokes == EventsOf(c, "llm_invoke")
            IN  /\ Cardinality(searches) = 1
                /\ Cardinality(invokes) = 1
                /\ \A i \in searches :
                       c.events[i].text = c.question /\ c.events[i].k = c.k
                /\ \A i \in searches, j \in invokes : i < j
                /\ c.response # None
                /\ c.raised = NoException =>
                       /\ c.response # GenerationFailure
                       /\ c.result.answer = c.response.content
                       /\ c.result.question = c.question

\* an ask() with a k that is not the default returned a generated answer
C6_Witness ==
    \E t \in SeqThreads :
        /\ Ended(t)
        /\ call[t].raised = NoException
        /\ call[t].k # DefaultK
        /\ Len(call[t].relevant_docs) = call[t].k
        /\ call[t].response # None
        /\ call[t].result.answer \in Answers

\* the generation call of thread t's ask() has failed
GenerationFailed(c) == c.response = GenerationFailure

\* the outcome of ask(question, k) with the given client and index, when the
\* gateways work and the generation answers g
LaterAsk(question, k, llm_, vectorstore_, g) ==
    LET c == RunAsk(question, k, FALSE, llm_, vectorstore_, Env(TRUE, TRUE, g)).call
    IN  <<c.raised, c.result>>

\* C7: when the generation gateway fails during ask(), the call ends with
\* the exception and no result, the gateway was invoked once, and documents,
\* chunks and the attached index are what they were before the call, so
\* that a later ask() ends as it would have without the failed call.
C7_GenerationFailure ==
    [][\A t \in SeqThreads :
          GenerationFailed(call'[t]) =>
              /\ call'[t].pc = "done"
              /\ call'[t].raised = "GatewayError"
              /\ call'[t].result = None
              /\ Cardinality(EventsOf(call'[t], "llm_invoke")) = 1
              /\ documents' = documents
              /\ chunks' = chunks
              /\ vectorstore' = vectorstore
              /\ \A q \in Questions :
                     LaterAsk(q, call'[t].k, llm', vectorstore', AnAnswer)
                         = LaterAsk(q, call'[t].k, llm, vectorstore, AnAnswer)]_vars

\* an ask() whose generation call failed has ended
C7_Witness ==
    \E t \in SeqThreads :
        /\ Ended(t)
        /\ GenerationFailed(call[t])
        /\ call[t].relevant_docs # <<>>
        /\ vectorstore # None

(***************************************************************************)
(* Properties of the functions of vectorstore.py.                          *)
(***************************************************************************)

\* C8: create_vector_store on an empty chunk list raises the empty-input
\* error before any embedding gateway is created or called and before an
\* index is constructed, and returns no index.
C8_EmptyChunksRejected ==
    (ret.op = "create_vector_store" /\ ret.arg[1] = <<>>) =>
        /\ ret.raised = "ValueError"
        /\ ret.gateways_created = 0
        /\ ret.embed_calls = 0
        /\ ~ret.index_built
        /\ ret.store = None

\* create_vector_store([]) was called without a gateway, where a later
\* check would have created one
C8_Witness ==
    /\ ret.op = "create_vector_store"
    /\ ret.arg[1] = <<>>
    /\ ret.arg[2] = None
    /\ ret.raised = "ValueError"

\* entry i of the index is nearer to the vector v than entry j, insertion
\* order deciding between equal distances
Nearer(index, v, i, j) ==
    \/ Distance(index[i], v) < Distance(index[j], v)
    \/ Distance(index[i], v) = Distance(index[j], v) /\ i < j

SearchOnEmptyIndex ==
    /\ ret.op = "search"
    /\ ret.raised = NoException
    /\ Len(vectorstore.index) = 0

C11_MissingIndex ==
    [][/\ \A p \in Paths, emb \in {None, EmbeddingsModel}, aws_ok \in BOOLEAN :
             disk[p] = None =>
                 load_vector_store(p, emb, disk, aws_ok)
                     = Outcome("FileNotFoundError", None, 0, 0, FALSE)
       /\ (ret'.op = "load_index" /\ disk[ret'.arg[1]] = None) =>
              ret'.raised \in {"FileNotFoundError", "ClientError"}
       /\ (ret'.op = "load_index" /\ ret'.raised # NoException) =>
              /\ vectorstore' = vectorstore
              /\ ~ret'.index_built]_vars

\* load_index() of a path without a persisted index failed on an
\* orchestrator that has an index attached
C11_Witness ==
    /\ ret.op = "load_index"
    /\ ret.raised = "FileNotFoundError"
    /\ disk[ret.arg[1]] = None
    /\ vectorstore # None

(***************************************************************************)
(* Properties of the functions of loader.py.                               *)
(***************************************************************************)

HasColon(line) == \E i \in 1..Len(line) : line[i] = ":"

FirstColon(line) ==
    CHOOSE i \in 1..Len(line) : line[i] = ":" /\ \A j \in 1..(i - 1) : line[j] # ":"

\* the key and the value that a header line declares
KeyOf(line) == Lower(Strip(SubSeq(line, 1, FirstColon(line) - 1)))
ValueOf(line) == Strip(SubSeq(line, FirstColon(line) + 1, Len(line)))

\* parse_metadata was called on a text made of a header and a body
ParsedHeader == ret.op = "parse_metadata" /\ ret.given # None

\* C12: for a text that starts with a header, parse_metadata returns a
\* mapping that holds every 'key: value' line of the header, the key in lower
\* case, key and value trimmed, the line split at its first colon, and
\* nothing for a line without a colon; the body it returns is the trimmed
\* text after the second delimiter.
C12_HeaderParsed ==
    ParsedHeader =>
        LET lines == ret.given.lines
            metadata == ret.out[1]
        IN  /\ \A i \in 1..Len(lines) :
                   HasColon(lines[i]) =>
                       /\ KeyOf(lines[i]) \in DOMAIN metadata
                       /\ metadata[KeyOf(lines[i])] = ValueOf(lines[i])
            /\ \A key \in DOMAIN metadata :
                   \E i \in 1..Len(lines) :
                       HasColon(lines[i]) /\ KeyOf(lines[i]) = key
            /\ ret.out[2] = Strip(ret.given.body)

\* what does hold for a header none of whose lines contains the delimiter:
\* every key declared is in the mapping with the value of the last line that
\* declares it, nothing else is, and the body is the trimmed text after the
\* second delimiter
HeaderParsedLastWins ==
    (ParsedHeader
        /\ \A i \in 1..Len(ret.given.lines) : ~Contains(ret.given.lines[i], DELIM)) =>
        LET lines == ret.given.lines
            metadata == ret.out[1]
        IN  /\ \A i \in 1..Len(lines) :
                   (/\ HasColon(lines[i])
                    /\ \A j \in (i + 1)..Len(lines) :
                           HasColon(lines[j]) => KeyOf(lines[j]) # KeyOf(lines[i])) =>
                       /\ KeyOf(lines[i]) \in DOMAIN metadata
                       /\ metadata[KeyOf(lines[i])] = ValueOf(lines[i])
            /\ \A key \in DOMAIN metadata :
                   \E i \in 1..Len(lines) :
                       HasColon(lines[i]) /\ KeyOf(lines[i]) = key
            /\ ret.out[2] = Strip(ret.given.body)

RECURSIVE Delimiters(_)
\* the number of delimiters in a text, counted from its start
Delimiters(text) ==
    LET i == FindFrom(text, DELIM, 1)
    IN  IF i = 0 THEN 0 ELSE 1 + Delimiters(From(text, i + Len(DELIM)))

\* C13: for a text that does not start with the delimiter, or that holds
\* fewer than two delimiters, parse_metadata returns an empty mapping and the
\* text itself, character for character; for the empty text, ({}, "").
C13_NoHeader ==
    (/\ ret.op = "parse_metadata"
     /\ \/ ~StartsWith(ret.arg[1], DELIM)
        \/ Delimiters(ret.arg[1]) < 2) =>
        /\ DOMAIN ret.out[1] = {}
        /\ ret.out[2] = ret.arg[1]

\* parse_metadata was called on a text with a delimiter and whitespace at
\* its end, but no header
C13_Witness ==
    /\ ret.op = "parse_metadata"
    /\ StartsWith(ret.arg[1], DELIM)
    /\ Delimiters(ret.arg[1]) = 1
    /\ ret.arg[1] # Strip(ret.arg[1])
    /\ ret.out[2] = ret.arg[1]

\* the files of a directory that match *.txt, and those of them that can be
\* read, in the order of the listing
Matching(directory) == Glob(FileSystem(directory).files)
Readable(directory) == SelectSeq(Matching(directory), LAMBDA f : f.readable)

\* C14: every document that load_knowledge_base returns has 'source' equal
\* to the name of its file and 'filepath' equal to the file's path, whatever
\* the header of the file declares under these names.
C14_SourceAndPath ==
    ret.op = "load_knowledge_base" =>
        LET files == Readable(ret.arg[1])
        IN  /\ Len(ret.out) = Len(files)
            /\ \A i \in 1..Len(ret.out) :
                   /\ K_source \in DOMAIN ret.out[i].metadata
                   /\ K_filepath \in DOMAIN ret.out[i].metadata
                   /\ ret.out[i].metadata[K_source] = files[i].name
                   /\ ret.out[i].metadata[K_filepath]
                          = <<ret.arg[1], "/">> \o files[i].name

\* a directory was loaded that has a file whose header declares a source
\* and a filepath of its own
C14_Witness ==
    /\ ret.op = "load_knowledge_base"
    /\ \E i \in 1..Len(ret.out) :
           LET declared == parse_metadata(Readable(ret.arg[1])[i].text)[1]
           IN  /\ K_source \in DOMAIN declared
               /\ K_filepath \in DOMAIN declared
               /\ declared[K_source] # ret.out[i].metadata[K_source]
               /\ declared[K_filepath] # ret.out[i].metadata[K_filepath]

\* C15: load_knowledge_base returns the empty list for a directory that
\* does not exist, and otherwise one document for each matching file that
\* can be read, in the order of the listing, whether the files that cannot
\* be read come before, between or after them, and none for those.
C15_SkipsUnreadable ==
    ret.op = "load_knowledge_base" =>
        LET files == Readable(ret.arg[1])
        IN  /\ ~FileSystem(ret.arg[1]).exists => ret.out = <<>>
            /\ Len(ret.out) = Len(files)
            /\ \A i \in 1..Len(ret.out) :
                   /\ ret.out[i].metadata[K_source] = files[i].name
                   /\ ret.out[i].page_content = parse_metadata(files[i].text)[2]

\* a directory was loaded in which a file that cannot be read comes before
\* one that can
C15_Witness ==
    /\ ret.op = "load_knowledge_base"
    /\ ret.out # <<>>
    /\ \E i, j \in 1..Len(Matching(ret.arg[1])) :
           /\ i < j
           /\ ~Matching(ret.arg[1])[i].readable
           /\ Matching(ret.arg[1])[j].readable
           /\ ret.out[Len(ret.out)].metadata[K_source] = Matching(ret.arg[1])[j].name

\* a directory that does not exist was loaded
MissingDirectoryLoaded ==
    /\ ret.op = "load_knowledge_base"
    /\ ~FileSystem(ret.arg[1]).exists

\* the documents of a list whose content has a character that is not
\* whitespace
NonBlank(docs) == SelectSeq(docs, LAMBDA doc : Strip(doc.page_content) # <<>>)

\* C16: for every chunk size S and overlap O < S and every document list,
\* each chunk of create_chunks has at most S characters, a non-empty
\* document list gives at least as many chunks as it has documents, and
\* the empty list gives the empty list.
C16_SizeAndCount ==
    ret.op = "create_chunks" =>
        /\ \A i \in 1..Len(ret.out) : Len(ret.out[i].page_content) <= ret.arg[2]
        /\ ret.arg[1] # <<>> => Len(ret.out) >= Len(ret.arg[1])
        /\ ret.arg[1] = <<>> => ret.out = <<>>

\* what holds of sizes and counts: each chunk has at most S characters and
\* at least one, the empty list gives the empty list, and there are at least
\* as many chunks as documents with a character that is not whitespace
ChunkSizeAndNonBlankCount ==
    ret.op = "create_chunks" =>
        /\ ret.arg[3] < ret.arg[2]
        /\ \A i \in 1..Len(ret.out) :
               /\ Len(ret.out[i].page_content) <= ret.arg[2]
               /\ Len(ret.out[i].page_content) >= 1
        /\ Len(ret.out) >= Len(NonBlank(ret.arg[1]))
        /\ ret.arg[1] = <<>> => ret.out = <<>>

\* a chunk that was cut from a document: the document's metadata and a
\* piece of its content
CutFrom(chunk, doc) ==
    /\ chunk.metadata = doc.metadata
    /\ Contains(doc.page_content, chunk.page_content)

RECURSIVE Grouped(_, _)
\* the chunks are those of the first document, then those of the second, and
\* so on
Grouped(cs, docs) ==
    IF docs = <<>> THEN cs = <<>>
    ELSE \E c \in 0..Len(cs) :
            /\ \A j \in 1..c : CutFrom(cs[j], Head(docs))
            /\ Grouped(SubSeq(cs, c + 1, Len(cs)), Tail(docs))

C18_SmallDocuments ==
    (/\ ret.op = "create_chunks"
     /\ \A i \in 1..Len(ret.arg[1]) : Len(ret.arg[1][i].page_content) < ret.arg[2])
        => /\ Len(ret.out) = Len(ret.arg[1])
           /\ \A i \in 1..Len(ret.out) :
                  ret.out[i].page_content = ret.arg[1][i].page_content

\* what holds of small documents: one chunk for each document that has a
\* character that is not whitespace, with the document's content without
\* the whitespace at its ends, and no chunk for the other documents
SmallDocumentsStripped ==
    (/\ ret.op = "create_chunks"
     /\ \A i \in 1..Len(ret.arg[1]) : Len(ret.arg[1][i].page_content) < ret.arg[2])
        => /\ Len(ret.out) = Len(NonBlank(ret.arg[1]))
           /\ \A i \in 1..Len(ret.out) :
                  /\ ret.out[i].page_content = Strip(NonBlank(ret.arg[1])[i].page_content)
                  /\ ret.out[i].metadata = NonBlank(ret.arg[1])[i].metadata

\* a step that leaves the documents, the chunks and the attached index as
\* they were
PipelineStateKept ==
    /\ documents' = documents
    /\ chunks' = chunks
    /\ vectorstore' = vectorstore

\* C19: process() without documents returns 0 and does not call the
\* chunker; index() without chunks returns 0, raises nothing, creates no
\* gateway and builds no index; save() without an attached index does not
\* call the persistence operation; each of them leaves the documents, the
\* chunks and the attached index as they were.
C19_GuardedSteps ==
    [][/\ (ret'.op = "process" /\ documents = <<>>) =>
              /\ ret'.value = 0
              /\ ret'.raised = NoException
              /\ ~ret'.callee_called
              /\ PipelineStateKept
       /\ (ret'.op = "index" /\ chunks = <<>>) =>
              /\ ret'.value = 0
              /\ ret'.raised = NoException
              /\ ret'.gateways_created = 0
              /\ ret'.embed_calls = 0
              /\ ~ret'.index_built
              /\ ~ret'.callee_called
              /\ embeddings' = embeddings
              /\ PipelineStateKept
       /\ (ret'.op = "save" /\ vectorstore = None) =>
              /\ ret'.raised = NoException
              /\ ~ret'.callee_called
              /\ disk' = disk
              /\ PipelineStateKept]_vars

\* process() was called without documents on an orchestrator that still
\* holds the chunks of an earlier run
C19_Witness ==
    /\ ret.op = "process"
    /\ documents = <<>>
    /\ chunks # <<>>
    /\ ret.value = 0
    /\ ~ret.callee_called

\* index() was called without chunks on an orchestrator that holds documents
IndexWithoutChunks ==
    /\ ret.op = "index"
    /\ chunks = <<>>
    /\ documents # <<>>
    /\ ret.value = 0

\* save() was called without an index on an orchestrator that holds chunks
SaveWithoutIndex ==
    /\ ret.op = "save"
    /\ vectorstore = None
    /\ chunks # <<>>
    /\ ~ret.callee_called

\* C20: search and search_with_scores without a store raise ValueError
\* before the query is embedded and before any similarity search; with a
\* store, what they return is what the store's similarity search returns for
\* the query and k, in the same order.
C20_SearchPassThrough ==
    ret.op \in {"search", "search_with_scores"} =>
        /\ vectorstore = None =>
               /\ ret.raised = "ValueError"
               /\ ret.embed_calls = 0
               /\ ~ret.callee_called
               /\ ret.docs = <<>>
        /\ (vectorstore # None /\ ret.raised = NoException) =>
               ret.docs = IF ret.op = "search"
                          THEN similarity_search(vectorstore, ret.arg[1], ret.arg[2])
                          ELSE similarity_search_with_score(vectorstore, ret.arg[1],
                                                            ret.arg[2])
        /\ vectorstore # None => ret.raised # "ValueError"

\* search_with_scores was called without a store
C20_Witness ==
    /\ ret.op = "search_with_scores"
    /\ vectorstore = None
    /\ ret.raised = "ValueError"

\* search_with_scores returned more than one scored document of a store
ScoredSearchReturned ==
    /\ ret.op = "search_with_scores"
    /\ vectorstore # None
    /\ ret.raised = NoException
    /\ Len(ret.docs) >= 2
    /\ ret.docs[1][2] <= ret.docs[2][2]

\* search was called without a store
SearchWithoutStore ==
    /\ ret.op = "search"
    /\ vectorstore = None
    /\ ret.raised = "ValueError"

(***************************************************************************)
(* Properties of the orchestrator over its sequences of operations.        *)
(***************************************************************************)

\* C21: index() and load_index() attach an index in one assignment, after
\* the index was built from all the chunks or loaded whole: on every step
\* the attached index stays what it was or becomes the complete new one, a
\* call that fails leaves it as it was, and an attached index is never
\* detached.
C21_ConstructThenPublish ==
    [][/\ vectorstore # None => vectorstore' # None
       /\ vectorstore' # vectorstore =>
              /\ ret'.op \in {"index", "load_index"}
              /\ ret'.raised = NoException
              /\ ret'.op = "index" =>
                     /\ chunks # <<>>
                     /\ vectorstore' = FAISS_from_documents(chunks, EmbeddingsModel)
              /\ ret'.op = "load_index" =>
                     /\ disk[ret'.arg[1]] # None
                     /\ vectorstore' = load_local(disk[ret'.arg[1]], EmbeddingsModel)
       /\ (ret'.op \in {"index", "load_index"} /\ ret'.raised # NoException) =>
              vectorstore' = vectorstore]_vars

\* index() failed in the middle of a build, after an embedding call, on an
\* orchestrator whose attached index was built from other chunks
C21_Witness ==
    /\ ret.op = "index"
    /\ ret.raised = "GatewayError"
    /\ ret.embed_calls >= 1
    /\ vectorstore # None
    /\ vectorstore # FAISS_from_documents(chunks, EmbeddingsModel)

\* index() replaced an attached index that was loaded from disk
LoadedIndexReplaced ==
    /\ ret.op = "index"
    /\ ret.raised = NoException
    /\ vectorstore = FAISS_from_documents(chunks, EmbeddingsModel)
    /\ \E p \in Paths : disk[p] # None /\ disk[p] # save_local(vectorstore)

\* what ask(question, k) returns when it runs alone on an orchestrator with
\* the index vectorstore_, no generation client yet, and gateways that work
Alone(question, k, vectorstore_) ==
    RunAsk(question, k, FALSE, None, vectorstore_, Env(TRUE, TRUE, AnAnswer)).call.result

\* a step of a call of ask()
AskStepTaken == \E t \in Threads : call'[t] # call[t] /\ call'[t].pc # "idle"

\* C22: in every interleaving of the steps of two ask() calls on an
\* orchestrator with an attached index, a call that returns has the sources
\* and the num_chunks_used of the same call run alone, and no step of a call
\* changes the documents, the chunks or the attached index.
C22_ConcurrentAsk ==
    [][/\ \A t \in Threads :
              (vectorstore' # None /\ call'[t].pc = "done" /\ call'[t].result # None) =>
                  LET alone == Alone(call'[t].question, call'[t].k, vectorstore')
                  IN  /\ call'[t].result.sources = alone.sources
                      /\ call'[t].result.num_chunks_used = alone.num_chunks_used
                      /\ call'[t].result.question = call'[t].question
       /\ AskStepTaken =>
              /\ documents' = documents
              /\ chunks' = chunks
              /\ vectorstore' = vectorstore]_vars

\* two calls with different questions ran together on an attached index,
\* both found no generation client and both created one, and both returned
\* sources
C22_Witness ==
    /\ vectorstore # None
    /\ \A t \in Threads :
           /\ call[t].pc = "done"
           /\ call[t].result # None
           /\ EventsOf(call[t], "create_llm_client") # {}
           /\ call[t].result.num_chunks_used >= 2
    /\ call[1].question # call[2].question
    /\ call[1].result.sources # call[2].result.sources

\* build_knowledge_base is building from scratch and found no document
BuildingWithoutDocuments ==
    /\ ret.op \in {"load", "process", "index", "save"}
    /\ documents = <<>>

\* the steps of a build without documents: nothing raises, the chunker, the
\* index build and the persistence are not called, no index is attached
NothingBuilt ==
    BuildingWithoutDocuments =>
        /\ ret.raised = NoException
        /\ ret.op # "load" => ~ret.callee_called
        /\ ~ret.index_built
        /\ ret.gateways_created = 0
        /\ chunks = <<>>
        /\ vectorstore = None
        /\ \A p \in Paths : origin[p] = None

\* what was saved is the index attached, built in this call from all the
\* chunks
SavedOnlyWhenBuilt ==
    \A p \in Paths :
        origin[p] # None =>
            /\ p = "vector_index"
            /\ chunks # <<>>
            /\ origin[p] = vectorstore
            /\ vectorstore = FAISS_from_documents(chunks, EmbeddingsModel)
            /\ disk[p] = save_local(vectorstore)

\* C23: build_knowledge_base does not raise for missing inputs: without a
\* persisted index it builds from scratch, without documents it calls no
\* chunker, no index build and no save and returns an orchestrator without
\* an index, on which every ask() returns the 'not initialized' result and
\* raises nothing; an index is saved only when it was built in the call.
C23_BuildWithoutInputs ==
    /\ NothingBuilt
    /\ SavedOnlyWhenBuilt
    /\ (Ended(1) /\ vectorstore = None /\ documents = <<>>) =>
           /\ call[1].raised = NoException
           /\ call[1].result = Result(call[1].question, NotInitializedAnswer, <<>>, 0)

\* what holds: the same, but for the ask() calls in which the generation
\* client cannot be created, which raise
BuildWithoutInputsClientAvailable ==
    /\ NothingBuilt
    /\ SavedOnlyWhenBuilt
    /\ (Ended(1) /\ vectorstore = None /\ documents = <<>>) =>
           /\ call[1].raised \in {NoException, "ClientError"}
           /\ call[1].raised = NoException =>
                  call[1].result
                      = Result(call[1].question, NotInitializedAnswer, <<>>, 0)

\* build_knowledge_base went through its four steps without documents
BuiltWithoutDocuments ==
    /\ ret.op = "save"
    /\ documents = <<>>
    /\ disk["vector_index"] = None

\* build_knowledge_base saved the index it built
BuiltAndSaved ==
    /\ ret.op = "save"
    /\ origin["vector_index"] # None

\* the documents of the attached index are the chunks that create_chunks
\* makes of the documents that load_knowledge_base returns for a directory
FromPipeline ==
    /\ vectorstore # None
    /\ \E d \in LoadDirectories, cp \in ChunkParams :
           vectorstore.docstore = create_chunks(load_knowledge_base(d), cp[1], cp[2])

\* C24: when the chunks of the attached index come from the loader and the
\* chunker, the sources of every result of ask() name each file at most
\* once, however many chunks of the file were retrieved, and
\* num_chunks_used is the number of retrieved chunks.
C24_OneCitationPerFile ==
    \A t \in SeqThreads :
        (Ended(t) /\ call[t].result # None /\ FromPipeline) =>
            LET sources == call[t].result.sources
            IN  /\ \A i, j \in 1..Len(sources) :
                       sources[i].file = sources[j].file => i = j
                /\ call[t].result.num_chunks_used = Len(call[t].relevant_docs)
                /\ \A i \in 1..Len(call[t].relevant_docs) :
                       \E j \in 1..Len(sources) :
                           sources[j].file
                               = Get(call[t].relevant_docs[i].metadata, K_source, Unknown)

\* an ask() on an index from the pipeline retrieved two chunks of one file
\* and a chunk of another file, and cites two files
C24_Witness ==
    /\ FromPipeline
    /\ Ended(1)
    /\ call[1].result # None
    /\ call[1].result.num_chunks_used = 3
    /\ Len(call[1].result.sources) = 2

\* the metadata value a citation field shows: the chunk's, or 'Unknown'
Shown(doc, key) == IF key \in DOMAIN doc.metadata THEN doc.metadata[key] ELSE Unknown

\* the same call with the other value of show_context, on the same index,
\* with the same answer of the generation gateway
WithOtherFlag(c) ==
    RunAsk(c.question, c.k, ~c.show_context, LlmModel, vectorstore,
           Env(TRUE, TRUE, IF c.response = None THEN AnAnswer ELSE c.response)).call.result

\* C25: every result that ask() returns has the question as it was passed,
\* at most as many sources as chunks used, no source exactly when no chunk
\* was used, sources with the fields file, author and topic and no other,
\* each the value of a retrieved chunk's metadata or 'Unknown' where the
\* chunk has none, and is the result with the other value of show_context.
C25_ResultShape ==
    \A t \in SeqThreads :
        (Ended(t) /\ call[t].result # None) =>
            LET r == call[t].result
            IN  /\ DOMAIN r = {"question", "answer", "sources", "num_chunks_used"}
                /\ r.question = call[t].question
                /\ 0 <= Len(r.sources)
                /\ Len(r.sources) <= r.num_chunks_used
                /\ r.sources = <<>> <=> r.num_chunks_used = 0
                /\ \A i \in 1..Len(r.sources) :
                       /\ DOMAIN r.sources[i] = {"file", "author", "topic"}
                       /\ \E j \in 1..Len(call[t].relevant_docs) :
                              LET doc == call[t].relevant_docs[j]
                              IN  /\ r.sources[i].file = Shown(doc, K_source)
                                  /\ r.sources[i].author = Shown(doc, K_author)
                                  /\ r.sources[i].topic = Shown(doc, K_topic)
                /\ r = WithOtherFlag(call[t])

\* an ask() with show_context set returned a generated answer whose sources
\* include a chunk without metadata, cited as 'Unknown'
C25_Witness ==
    /\ Ended(1)
    /\ call[1].result # None
    /\ call[1].show_context
    /\ call[1].response # None
    /\ \E i \in 1..Len(call[1].result.sources) :
           /\ call[1].result.sources[i].file = Unknown
           /\ call[1].result.sources[i].topic = Unknown
    /\ Len(call[1].result.sources) >= 2

\* the two outcomes without a generation, with show_context set
NoIndexWithContextFlag ==
    /\ Ended(1) /\ call[1].show_context
    /\ call[1].result # None
    /\ call[1].result.answer = NotInitializedAnswer

NoResultsWithContextFlag ==
    /\ Ended(1) /\ call[1].show_context
    /\ call[1].result # None
    /\ call[1].result.answer = NoResultsAnswer

(***************************************************************************)
(* Properties of interactive().                                            *)
(***************************************************************************)

\* the exit keywords
ExitKeywords == {<<"q", "u", "i", "t">>, <<"e", "x", "i", "t">>, <<"q">>}

\* the position of the first of the lines that is, trimmed and in lower
\* case, one of the words; 0 when none is
FirstOf(words, lines) ==
    IF \E i \in 1..Len(lines) : Lower(Strip(lines[i])) \in words
    THEN CHOOSE i \in 1..Len(lines) :
             /\ Lower(Strip(lines[i])) \in words
             /\ \A j \in 1..(i - 1) : Lower(Strip(lines[j])) \notin words
    ELSE 0

\* the session asks each line before the first of the words, in order and
\* once, asks nothing from that line on and ends there, and does not end
\* of itself on another line
StopsAt(words) ==
    ret.op = "interactive" =>
        LET first == FirstOf(words, ret.read)
            before == IF first = 0 THEN Len(ret.read) ELSE first - 1
        IN  /\ ret.asked = [i \in 1..before |-> Strip(ret.read[i])]
            /\ first # 0 => (first = Len(ret.read) /\ ~ret.running)
            /\ (~ret.running /\ ret.raised = NoException) => first # 0

\* C26: the interactive loop calls ask() once, in order, for each line
\* before the first exit keyword ('quit', 'exit' or 'q', trimmed, in any
\* case), calls it for no line from the keyword on, ends at the keyword,
\* and does not end on a line that is not an exit keyword.
C26_StopsAtExitKeyword == StopsAt(ExitKeywords)

\* what holds: the same with the empty line and the line of blanks counted
\* among the words that end the session
StopsAtExitWordOrBlank == StopsAt(ExitWords)

\* a session asked a question and ended on an empty line
EndedOnEmptyLine ==
    /\ ret.op = "interactive"
    /\ ~ret.running
    /\ ret.raised = NoException
    /\ Len(ret.asked) >= 1
    /\ ret.read[Len(ret.read)] = <<>>

\* a session asked two questions and ended on a keyword typed in upper case
EndedOnKeyword ==
    /\ ret.op = "interactive"
    /\ ~ret.running
    /\ Len(ret.asked) = 2
    /\ ret.read[Len(ret.read)] = <<"E", "x", "i", "t">>
====
